---- MODULE Spec2Model ----
(***************************************************************************)
(* Model of the Fibre local function endpoint                              *)
(* (cpp/include/fibre/local_function.hpp): static function metadata, the   *)
(* decoder and encoder chains, the input/output argument merge and the     *)
(* endpoint's handlers.  The transport (IncomingConnectionDecoder,         *)
(* StaticStreamChain, StreamSink, the tuple helpers) lives in fibre.hpp,   *)
(* which is not part of the sources at hand; those parts follow the        *)
(* written specification.                                                  *)
(***************************************************************************)
EXTENDS Integers, Sequences, FiniteSets, TLC

VARIABLES
    endpoints,  \* the registered endpoints (static registration), a sequence
    call,       \* per in-flight call: its context, decoder chain and history
    probe,      \* results of the last get_hash / get_as_json query
    pure        \* a pure function under test: its inputs and, once applied, its result

vars == <<endpoints, call, probe, pure>>

----------------------------------------------------------------------------
(* Bounds of the model *)

MaxItems == 2       \* metadata items (with_item calls) per declaration
MaxResults == 1     \* native return values per callable
MaxChunk == 2       \* bytes the transport delivers in one scheduling turn
MaxSinkSpace == 9   \* bytes the output sink may have room for
MaxEndpoints == 2   \* endpoints in the registry
MaxRegItems == 1    \* metadata items per declaration offered to the registry
MaxModes == 4       \* length of a tag sequence handed to the merge

NONE == "NONE"

\* Values are tagged so that a tuple can hold numbers, references to output
\* storage and string pointers side by side.
Val(v) == [kind |-> "val", v |-> v, mem |-> <<>>]        \* a number or object pointer
Ref(j) == [kind |-> "ref", v |-> j, mem |-> <<>>]        \* reference to output storage j
Str(bytes) == [kind |-> "str", v |-> 1, mem |-> bytes]   \* non-null const char *
NULL == [kind |-> "str", v |-> 0, mem |-> <<>>]          \* nullptr

----------------------------------------------------------------------------
(* Tuple helpers (tuple_take, tuple_skip, tuple_cat, repeat_t) *)

Min(a, b) == IF a < b THEN a ELSE b

tuple_take(n, t) == SubSeq(t, 1, n)

tuple_skip(n, t) == SubSeq(t, n + 1, Len(t))

repeat_t(n, x) == [i \in 1..n |-> x]

RECURSIVE tuple_cat_all(_)
tuple_cat_all(ts) ==
    IF ts = <<>> THEN <<>> ELSE Head(ts) \o tuple_cat_all(Tail(ts))

\* remove_ref_or_ptr: the value type behind an output parameter
remove_ref_or_ptr(type) ==
    CASE type = "uint32_t&" -> "uint32_t"
      [] type = "const char*&" -> "const char*"
      [] type = "size_t&" -> "size_t"
      [] OTHER -> type

----------------------------------------------------------------------------
(* Argument modes *)

arg_mode_input == "arg_mode_input"
arg_mode_output == "arg_mode_output"

----------------------------------------------------------------------------
(* Codecs: which Decoder<...> / Encoder<...> specializations exist *)

DecoderExists(types) == types \in {<<"uint32_t">>, <<"TObj*">>}

DecoderName(types) == IF types = <<"uint32_t">> THEN "uint32" ELSE "TObj"

EncoderExists(types) == types \in {<<"uint32_t">>, <<"const char*", "size_t">>}

----------------------------------------------------------------------------
(* Static function metadata *)

\* InputMetadataPrototype<INameLength, IInParams>
make_input_metadata_prototype(n, name) ==
    [kind |-> "in", name |-> name, nparams |-> n, discard |-> FALSE]

\* OutputMetadataPrototype<INameLength, IOutParams, BDiscard>
make_output_metadata_prototype(n, discard, name) ==
    [kind |-> "out", name |-> name, nparams |-> n, discard |-> discard]

\* InputMetadata<INameLength, std::tuple<TArgs...>>
InputMetadata(name, targs) ==
    [name |-> name, tuple_type |-> targs, decoder_type |-> targs]

\* OutputMetadata<INameLength, std::tuple<TArgs...>, BDiscard>
OutputMetadata(name, targs, discard) ==
    [name |-> name, tuple_type |-> targs,
     encoder_type |->
        [void |-> discard,
         types |-> [i \in 1..Len(targs) |-> remove_ref_or_ptr(targs[i])]]]

\* get_input_json<I>
get_input_json(input) ==
    "{\"name\":\"" \o input.name \o "\",\"codec\":\""
        \o DecoderName(input.decoder_type) \o "\"}"

\* Variant: the entries are joined with a comma and a blank
RECURSIVE get_all_inputs_json_spaced(_)
get_all_inputs_json_spaced(inputs) ==
    IF inputs = <<>> THEN ""
    ELSE IF Len(inputs) = 1 THEN get_input_json(inputs[1])
    ELSE get_input_json(inputs[1]) \o ", " \o get_all_inputs_json_spaced(Tail(inputs))

\* join_sstring(",", get_input_json<Is>...)
RECURSIVE get_all_inputs_json(_)
get_all_inputs_json(inputs) ==
    IF inputs = <<>> THEN ""
    ELSE IF Len(inputs) = 1 THEN get_input_json(inputs[1])
    ELSE get_input_json(inputs[1]) \o "," \o get_all_inputs_json(Tail(inputs))

\* FunctionJSONAssembler::get_as_json
FunctionJSONAssembler(function_name, input_metadata) ==
    "{\"name\":\"" \o function_name \o "\",\"in\":["
        \o get_all_inputs_json(input_metadata) \o "]}"

\* StaticFunctionMetadata<TFuncName, TInputMetadata, TOutputMetadata,
\*                        TFreeArgs, TArgModes>
StaticFunctionMetadata(function_name, input_metadata, output_metadata, free_args, arg_modes) ==
    [function_name |-> function_name,
     input_metadata |-> input_metadata,
     output_metadata |-> output_metadata,
     TFreeArgs |-> free_args,
     TArgModes |-> arg_modes,
     json |-> FunctionJSONAssembler(function_name, input_metadata)]

make_function_metadata(free_args, function_name) ==
    StaticFunctionMetadata(function_name, <<>>, <<>>, free_args, <<>>)

\* Variant: the modes of an output item are put ahead of the recorded ones
with_item_prepend(md, item) ==
    IF item.kind = "in"
    THEN StaticFunctionMetadata(
            md.function_name,
            Append(md.input_metadata,
                   InputMetadata(item.name, tuple_take(item.nparams, md.TFreeArgs))),
            md.output_metadata,
            tuple_skip(item.nparams, md.TFreeArgs),
            md.TArgModes \o repeat_t(item.nparams, arg_mode_input))
    ELSE StaticFunctionMetadata(
            md.function_name,
            md.input_metadata,
            Append(md.output_metadata,
                   OutputMetadata(item.name, tuple_take(item.nparams, md.TFreeArgs),
                                  item.discard)),
            tuple_skip(item.nparams, md.TFreeArgs),
            repeat_t(item.nparams, arg_mode_output) \o md.TArgModes)

with_item(md, item) ==
    IF item.kind = "in"
    THEN StaticFunctionMetadata(
            md.function_name,
            Append(md.input_metadata,
                   InputMetadata(item.name, tuple_take(item.nparams, md.TFreeArgs))),
            md.output_metadata,
            tuple_skip(item.nparams, md.TFreeArgs),
            md.TArgModes \o repeat_t(item.nparams, arg_mode_input))
    ELSE StaticFunctionMetadata(
            md.function_name,
            md.input_metadata,
            Append(md.output_metadata,
                   OutputMetadata(item.name, tuple_take(item.nparams, md.TFreeArgs),
                                  item.discard)),
            tuple_skip(item.nparams, md.TFreeArgs),
            md.TArgModes \o repeat_t(item.nparams, arg_mode_output))

RECURSIVE with_items(_, _)
with_items(md, items) ==
    IF items = <<>> THEN md
    ELSE with_items(with_item(md, Head(items)), Tail(items))

\* impl_in_vals_t, impl_out_refs_t, impl_out_vals_t: the flattened types
impl_in_vals_t(md) ==
    tuple_cat_all([i \in 1..Len(md.input_metadata) |-> md.input_metadata[i].tuple_type])

impl_out_refs_t(md) ==
    tuple_cat_all([i \in 1..Len(md.output_metadata) |-> md.output_metadata[i].tuple_type])

impl_out_vals_t(md) ==
    [i \in 1..Len(impl_out_refs_t(md)) |-> remove_ref_or_ptr(impl_out_refs_t(md)[i])]

\* Variant: the chain is instantiated without the decoder of the last input
TInputDecoders_short(md) ==
    [i \in 1..(Len(md.input_metadata) - 1) |-> md.input_metadata[i].decoder_type]

TInputDecoders(md) ==
    [i \in 1..Len(md.input_metadata) |-> md.input_metadata[i].decoder_type]

TOutputEncoders(md) ==
    [i \in 1..Len(md.output_metadata) |-> md.output_metadata[i].encoder_type]

----------------------------------------------------------------------------
(* Argument merge *)

\* merged_io_tuple_type: which (inputs, outputs, modes) triples have a
\* specialization, i.e. for which the merge is well-formed
RECURSIVE merged_io_tuple_type(_, _, _)
merged_io_tuple_type(nin, nout, arg_modes) ==
    IF arg_modes = <<>> THEN TRUE
    ELSE IF Head(arg_modes) = arg_mode_input
    THEN nin > 0 /\ merged_io_tuple_type(nin - 1, nout, Tail(arg_modes))
    ELSE nout > 0 /\ merged_io_tuple_type(nin, nout - 1, Tail(arg_modes))

\* Variant: the output overload hands the output references on unshortened
RECURSIVE merge_to_io_tuple_noskip(_, _, _)
merge_to_io_tuple_noskip(in_refs, out_refs, arg_modes) ==
    IF arg_modes = <<>> THEN <<>>
    ELSE IF Head(arg_modes) = arg_mode_input
    THEN <<in_refs[1]>>
            \o merge_to_io_tuple_noskip(tuple_skip(1, in_refs), out_refs,
                                        tuple_skip(1, arg_modes))
    ELSE <<out_refs[1]>>
            \o merge_to_io_tuple_noskip(in_refs, out_refs, tuple_skip(1, arg_modes))

RECURSIVE merge_to_io_tuple(_, _, _)
merge_to_io_tuple(in_refs, out_refs, arg_modes) ==
    IF arg_modes = <<>> THEN <<>>
    ELSE IF Head(arg_modes) = arg_mode_input
    THEN <<in_refs[1]>>
            \o merge_to_io_tuple(tuple_skip(1, in_refs), out_refs,
                                 tuple_skip(1, arg_modes))
    ELSE <<out_refs[1]>>
            \o merge_to_io_tuple(in_refs, tuple_skip(1, out_refs),
                                 tuple_skip(1, arg_modes))

----------------------------------------------------------------------------
(* Output sink: StreamSink::process_bytes(buffer, length, processed_bytes) *)

\* The sink accepts what it has room for; a request it cannot take whole is
\* answered with its `onfull` status ("OK" is a short write).  Every request
\* is logged with the chain element being serialized.
process_bytes(sink, buffer) ==
    LET n == Min(Len(buffer), sink.space)
        status == IF n = Len(buffer) THEN "OK" ELSE sink.onfull
    IN [sink EXCEPT
            !.space = @ - n,
            !.log = Append(@, [elem |-> sink.elem, buffer |-> buffer,
                               processed |-> n, status |-> status])]

last_status(sink) == sink.log[Len(sink.log)].status

last_processed(sink) == sink.log[Len(sink.log)].processed

NewSink(space, onfull) ==
    [space |-> space, onfull |-> onfull, elem |-> 0, log |-> <<>>]

\* write_le<uint32_t>: four bytes, least significant first (the value is
\* truncated to 32 bits by taking its four low bytes)
write_le(value) ==
    <<value % 256, (value \div 256) % 256,
      (value \div 65536) % 256, (value \div 16777216) % 256>>

\* read_le<uint32_t>
read_le(buf) ==
    buf[1] + 256 * (IF Len(buf) > 1 THEN buf[2] ELSE 0)
           + 65536 * (IF Len(buf) > 2 THEN buf[3] ELSE 0)
           + 16777216 * (IF Len(buf) > 3 THEN buf[4] ELSE 0)

----------------------------------------------------------------------------
(* Encoders *)

\* VoidEncoder<Ts...>::serialize
VoidEncoder_serialize(output, values) == output

\* Encoder<uint32_t>::serialize: the sink's answer is not looked at
Encoder_uint32_serialize(output, values) ==
    process_bytes(output, write_le(values[1].v))

\* Variant: the prefix carries the length argument even for a null string
Encoder_string_serialize_rawlen(output, values) ==
    LET str == values[1]
        length == values[2].v
        i == length
        o1 == process_bytes(output, write_le(i))
    IN IF last_status(o1) # "OK" \/ last_processed(o1) # 4
       THEN o1
       ELSE IF str # NULL
            THEN process_bytes(o1, SubSeq(str.mem, 1, length))
            ELSE o1

\* Variant: the payload is offered whatever became of the prefix
Encoder_string_serialize_unchecked(output, values) ==
    LET str == values[1]
        length == values[2].v
        i == IF str # NULL THEN length ELSE 0
        o1 == process_bytes(output, write_le(i))
    IN IF str # NULL
       THEN process_bytes(o1, SubSeq(str.mem, 1, length))
       ELSE o1

\* Encoder<const char *, size_t>::serialize
Encoder_string_serialize(output, values) ==
    LET str == values[1]
        length == values[2].v
        i == IF str # NULL THEN length ELSE 0
        o1 == process_bytes(output, write_le(i))
    IN IF last_status(o1) # "OK" \/ last_processed(o1) # 4
       THEN o1
       ELSE IF str # NULL
            THEN process_bytes(o1, SubSeq(str.mem, 1, length))
            ELSE o1

Encoder_serialize(enc, output, values) ==
    IF enc.void THEN VoidEncoder_serialize(output, values)
    ELSE IF enc.types = <<"uint32_t">> THEN Encoder_uint32_serialize(output, values)
    ELSE Encoder_string_serialize(output, values)

\* Variant: the rest of the chain is handed the values unshortened
RECURSIVE EncoderChain_serialize_noskip(_, _, _, _)
EncoderChain_serialize_noskip(encoders, output, values, k) ==
    IF encoders = <<>> THEN output
    ELSE LET n == Len(Head(encoders).types)
             o1 == Encoder_serialize(Head(encoders), [output EXCEPT !.elem = k],
                                     tuple_take(n, values))
         IN EncoderChain_serialize_noskip(Tail(encoders), o1, values, k + 1)

\* Variant: the empty chain closes the response with a zero byte
RECURSIVE EncoderChain_serialize_mark(_, _, _, _)
EncoderChain_serialize_mark(encoders, output, values, k) ==
    IF encoders = <<>> THEN process_bytes([output EXCEPT !.elem = k], <<0>>)
    ELSE LET n == Len(Head(encoders).types)
             o1 == Encoder_serialize(Head(encoders), [output EXCEPT !.elem = k],
                                     tuple_take(n, values))
         IN EncoderChain_serialize_mark(Tail(encoders), o1, tuple_skip(n, values), k + 1)

\* Variant: the values of a discarded output stay at the front of the tuple
RECURSIVE EncoderChain_serialize_voidkeep(_, _, _, _)
EncoderChain_serialize_voidkeep(encoders, output, values, k) ==
    IF encoders = <<>> THEN output
    ELSE LET n == Len(Head(encoders).types)
             o1 == Encoder_serialize(Head(encoders), [output EXCEPT !.elem = k],
                                     tuple_take(n, values))
         IN EncoderChain_serialize_voidkeep(
                Tail(encoders), o1,
                IF Head(encoders).void THEN values ELSE tuple_skip(n, values),
                k + 1)

\* EncoderChain<TEncoder<Ts...>, TEncoders...>::serialize; k counts the
\* chain elements for the sink's log
RECURSIVE EncoderChain_serialize(_, _, _, _)
EncoderChain_serialize(encoders, output, values, k) ==
    IF encoders = <<>> THEN output
    ELSE LET n == Len(Head(encoders).types)
             o1 == Encoder_serialize(Head(encoders), [output EXCEPT !.elem = k],
                                     tuple_take(n, values))
         IN EncoderChain_serialize(Tail(encoders), o1, tuple_skip(n, values), k + 1)

----------------------------------------------------------------------------
(* Decoder chain: StaticStreamChain<TDecoders...> of FixedIntDecoder and   *)
(* ObjectReferenceDecoder                                                  *)

ObjectRefSize == 2          \* bytes of an object reference token
ObjectTable == {1}          \* the tokens that resolve to a live object
ObjectBase == 1000          \* object pointers are ObjectBase + token

ElementSize(dtype) == IF dtype = <<"uint32_t">> THEN 4 ELSE ObjectRefSize

\* Variant: an object reference that does not resolve decodes to no object
DecodeElement_lenient(dtype, buf) ==
    IF dtype = <<"uint32_t">>
    THEN [ok |-> TRUE, value |-> Val(read_le(buf))]
    ELSE IF read_le(buf) \in ObjectTable
         THEN [ok |-> TRUE, value |-> Val(ObjectBase + read_le(buf))]
         ELSE [ok |-> TRUE, value |-> Val(0)]

DecodeElement(dtype, buf) ==
    IF dtype = <<"uint32_t">>
    THEN [ok |-> TRUE, value |-> Val(read_le(buf))]
    ELSE IF read_le(buf) \in ObjectTable
         THEN [ok |-> TRUE, value |-> Val(ObjectBase + read_le(buf))]
         ELSE [ok |-> FALSE, value |-> Val(0)]

NewChain(decoders) ==
    [decoders |-> decoders, pos |-> 1, buf |-> <<>>, values |-> <<>>,
     failed |-> FALSE, consumed |-> 0]

ChainDone(ch) == ~ch.failed /\ ch.pos > Len(ch.decoders)

\* Variant: an element's partly received bytes are dropped between two calls
RECURSIVE chain_process_bytes_from(_, _)
chain_process_bytes_from(ch, bytes) ==
    IF bytes = <<>> \/ ch.failed \/ ch.pos > Len(ch.decoders) THEN ch
    ELSE LET buf == Append(ch.buf, Head(bytes))
             dtype == ch.decoders[ch.pos]
             r == DecodeElement(dtype, buf)
         IN IF Len(buf) < ElementSize(dtype)
            THEN chain_process_bytes_from(
                    [ch EXCEPT !.buf = buf, !.consumed = @ + 1], Tail(bytes))
            ELSE IF r.ok
            THEN chain_process_bytes_from(
                    [ch EXCEPT !.buf = <<>>, !.consumed = @ + 1, !.pos = @ + 1,
                               !.values = Append(@, r.value)], Tail(bytes))
            ELSE [ch EXCEPT !.buf = <<>>, !.consumed = @ + 1, !.failed = TRUE]

chain_process_bytes_restart(ch, bytes) ==
    chain_process_bytes_from([ch EXCEPT !.buf = <<>>], bytes)

\* StaticStreamChain::process_bytes: feeds the bytes to the current element,
\* moves on when it is complete, stops at the end of the chain or on failure
RECURSIVE chain_process_bytes(_, _)
chain_process_bytes(ch, bytes) ==
    IF bytes = <<>> \/ ch.failed \/ ch.pos > Len(ch.decoders) THEN ch
    ELSE LET buf == Append(ch.buf, Head(bytes))
             dtype == ch.decoders[ch.pos]
             r == DecodeElement(dtype, buf)
         IN IF Len(buf) < ElementSize(dtype)
            THEN chain_process_bytes(
                    [ch EXCEPT !.buf = buf, !.consumed = @ + 1], Tail(bytes))
            ELSE IF r.ok
            THEN chain_process_bytes(
                    [ch EXCEPT !.buf = <<>>, !.consumed = @ + 1, !.pos = @ + 1,
                               !.values = Append(@, r.value)], Tail(bytes))
            ELSE [ch EXCEPT !.buf = <<>>, !.consumed = @ + 1, !.failed = TRUE]

\* Variant: the values of a chain that has been reset in the meantime
get_inputs_reset(decoder) == [i \in 1..Len(decoder.values) |-> Val(0)]

\* DecoderChain::get_inputs: the value of every decoder of the chain
get_inputs(decoder) == decoder.values

----------------------------------------------------------------------------
(* LocalFunctionEndpoint *)

\* A callable's type: args_of_t<TFunc> and as_tuple_t<result_of_t<TFunc>>
TFunc(nargs, nres) == [nargs |-> nargs, nres |-> nres]

LocalFunctionEndpoint(func, metadata) == [func_ |-> func, metadata_ |-> metadata]

NImplInputs(ep) == Len(impl_in_vals_t(ep.metadata_))
NImplOutputs(ep) == Len(impl_out_vals_t(ep.metadata_))
NImplArgs(ep) == ep.func_.nargs
NImplResults(ep) == ep.func_.nres

\* Variant: storage is allocated for every output, return values included
impl_out_arg_vals_all(ep) == impl_out_vals_t(ep.metadata_)

impl_out_arg_vals_t(ep) ==
    tuple_take(NImplOutputs(ep) - NImplResults(ep), impl_out_vals_t(ep.metadata_))

impl_out_ret_vals_t(ep) ==
    tuple_skip(NImplOutputs(ep) - NImplResults(ep), impl_out_vals_t(ep.metadata_))

impl_arg_modes_t(ep) == tuple_take(NImplArgs(ep), ep.metadata_.TArgModes)

\* Variant: the class without its static_assert
static_assert_absent(ep) == TRUE

\* The static_assert of the class
static_assert(ep) ==
    NImplInputs(ep) + NImplOutputs(ep) = NImplArgs(ep) + NImplResults(ep)

\* The endpoint builds: every codec it names exists, the static_assert holds
\* and the tuple types of decoder_finished are well-formed
Compiles(ep) ==
    /\ \A i \in 1..Len(ep.metadata_.input_metadata) :
            DecoderExists(ep.metadata_.input_metadata[i].decoder_type)
    /\ \A i \in 1..Len(ep.metadata_.output_metadata) :
            \/ ep.metadata_.output_metadata[i].encoder_type.void
            \/ EncoderExists(ep.metadata_.output_metadata[i].encoder_type.types)
    /\ static_assert(ep)
    /\ NImplResults(ep) <= NImplOutputs(ep)
    /\ NImplArgs(ep) <= Len(ep.metadata_.TArgModes)
    /\ merged_io_tuple_type(NImplInputs(ep),
                            Len(impl_out_arg_vals_t(ep)),
                            impl_arg_modes_t(ep))

----------------------------------------------------------------------------
(* The endpoint's handlers.  Each takes the call's context and returns it  *)
(* as the handler leaves it.                                               *)

Range(t) == {t[i] : i \in 1..Len(t)}

Event(e, k) == [e |-> e, k |-> k]

\* Value-initialized storage of an output parameter
DefaultValue(type) == IF type = "const char*" THEN NULL ELSE Val(0)

\* Variant: opening a connection already runs the native callable
open_connection_invokes(ep, ctx) ==
    [ctx EXCEPT !.decoder = NewChain(TInputDecoders(ep.metadata_)),
                !.invoked = @ + 1,
                !.history = Append(@, Event("open", 0))
                                \o <<Event("invoke", 0), Event("return", 0)>>]

\* LocalFunctionEndpoint::open_connection: set_stream<stream_chain>()
open_connection(ep, ctx) ==
    [ctx EXCEPT !.decoder = NewChain(TInputDecoders(ep.metadata_)),
                !.history = Append(@, Event("open", 0))]

\* LocalFunctionEndpoint::decoder_finished.  `stores` is what the native
\* callable writes through the output references it is handed, `ret` what it
\* returns; `output` is the sink the response goes to.
decoder_finished(ep, ctx, output, stores, ret) ==
    LET decoder == ctx.decoder
        in_vals == get_inputs(decoder)
        out_arg_types == impl_out_arg_vals_t(ep)
        out_arg_vals == [j \in 1..Len(out_arg_types) |-> DefaultValue(out_arg_types[j])]
        out_arg_refs == [j \in 1..Len(out_arg_types) |-> Ref(j)]
        in_and_out_refs ==
            merge_to_io_tuple(in_vals, out_arg_refs, impl_arg_modes_t(ep))
        \* std::apply(func_, in_and_out_refs)
        out_arg_vals_after ==
            [j \in 1..Len(out_arg_types) |->
                IF Ref(j) \in Range(in_and_out_refs) THEN stores[j] ELSE out_arg_vals[j]]
        out_ret_vals == ret
        values == out_arg_vals_after \o out_ret_vals
        sink == EncoderChain_serialize(TOutputEncoders(ep.metadata_), output, values, 1)
    IN [ctx EXCEPT
            !.invoked = @ + 1,
            !.args = in_and_out_refs,
            !.stored = out_arg_vals_after,
            !.ret = out_ret_vals,
            !.out_vals = values,
            !.sink = sink,
            !.history = @ \o <<Event("invoke", 0), Event("return", 0)>>
                          \o [i \in 1..Len(sink.log) |-> Event("write", sink.log[i].elem)]]

\* LocalFunctionEndpoint::get_hash
get_hash(ep) == 0

\* Variant: nothing is delivered unless both pointers are given
get_as_json_both(ep, has_output, has_length) ==
    [ret |-> TRUE,
     output |-> IF has_output /\ has_length THEN ep.metadata_.json ELSE NONE,
     length |-> IF has_output /\ has_length THEN Len(ep.metadata_.json) ELSE -1]

\* LocalFunctionEndpoint::get_as_json(output, length): either pointer may be null
get_as_json(ep, has_output, has_length) ==
    [ret |-> TRUE,
     output |-> IF has_output THEN ep.metadata_.json ELSE NONE,
     length |-> IF has_length THEN Len(ep.metadata_.json) ELSE -1]

----------------------------------------------------------------------------
(* Declarations offered for registration *)

\* A metadata item together with the native parameter types it stands for
ItemKinds ==
    {[proto |-> make_input_metadata_prototype(1, "x"), types |-> <<"uint32_t">>],
     [proto |-> make_input_metadata_prototype(1, "obj"), types |-> <<"TObj*">>],
     [proto |-> make_output_metadata_prototype(1, FALSE, "r"), types |-> <<"uint32_t&">>],
     [proto |-> make_output_metadata_prototype(2, FALSE, "s"),
      types |-> <<"const char*&", "size_t&">>],
     [proto |-> make_output_metadata_prototype(1, TRUE, "d"), types |-> <<"uint32_t&">>]}

DeclarationsUpTo(max) == UNION {[1..n -> ItemKinds] : n \in 0..max}

FreeArgsOf(decl) == tuple_cat_all([i \in 1..Len(decl) |-> decl[i].types])

ProtosOf(decl) == [i \in 1..Len(decl) |-> decl[i].proto]

\* make_local_function_endpoint(func, make_function_metadata<TFreeArgs>(name)
\*                                        .with_items(items...))
make_local_function_endpoint(func, decl) ==
    LocalFunctionEndpoint(
        func,
        with_items(make_function_metadata(FreeArgsOf(decl), "f"), ProtosOf(decl)))

\* Every endpoint a program may try to build, and those that do build
Candidates(max) ==
    {make_local_function_endpoint(TFunc(nargs, nres), decl) :
        nargs \in 0..(2 * max), nres \in 0..MaxResults,
        decl \in DeclarationsUpTo(max)}

RegisteredEndpoints == {ep \in Candidates(MaxItems) : Compiles(ep)}

----------------------------------------------------------------------------
(* Environment: the bytes on the wire, the native callable, the sink *)

InVals == {1, 256}                      \* uint32 arguments a caller sends
ExtraBytes == {<<>>, <<170>>}           \* bytes following the arguments

WireElems(dtype) ==
    IF dtype = <<"uint32_t">> THEN {write_le(v) : v \in InVals}
    ELSE {<<1, 0>>, <<0, 0>>}

RECURSIVE WireArgs(_)
WireArgs(decoders) ==
    IF decoders = <<>> THEN {<<>>}
    ELSE {b \o t : b \in WireElems(Head(decoders)), t \in WireArgs(Tail(decoders))}

Wires(ep) ==
    {w \o x : w \in WireArgs(TInputDecoders(ep.metadata_)), x \in ExtraBytes}

\* What a native callable may store or return for a value of a type
ValuesOfType(type) ==
    CASE type = "const char*" -> {NULL, Str(<<104, 105>>)}
      [] type = "size_t" -> {Val(0), Val(2)}
      [] OTHER -> {Val(0), Val(258)}

RECURSIVE TuplesOf(_)
TuplesOf(types) ==
    IF types = <<>> THEN {<<>>}
    ELSE {<<v>> \o t : v \in ValuesOfType(Head(types)), t \in TuplesOf(Tail(types))}

Sinks == {NewSink(space, onfull) : space \in 0..MaxSinkSpace, onfull \in {"OK", "ERROR"}}

----------------------------------------------------------------------------
(* State and actions *)

CallIds == {"A"}

IdleCall ==
    [state |-> "Idle", ep |-> 0, wire |-> <<>>, decoder |-> NewChain(<<>>),
     invoked |-> 0, args |-> <<>>, stored |-> <<>>, ret |-> <<>>, out_vals |-> <<>>,
     sink |-> NewSink(0, "OK"), history |-> <<>>]

NoProbe == [op |-> NONE, ep |-> 0, ret |-> FALSE, output |-> NONE, length |-> -1,
            hash |-> -1]

NoPure == [fn |-> NONE]

Init ==
    /\ \E ep \in RegisteredEndpoints : endpoints = <<ep>>
    /\ call = [c \in CallIds |-> IdleCall]
    /\ probe = NoProbe
    /\ pure = NoPure

\* A call begins: the connection layer asks the endpoint to install its
\* decoder chain; a chain with no element is complete at once
BeginCall(c, e, w) ==
    /\ call[c].state = "Idle"
    /\ LET ctx == open_connection(endpoints[e], [call[c] EXCEPT !.ep = e, !.wire = w])
       IN call' = [call EXCEPT ![c] =
                    [ctx EXCEPT !.state = IF ChainDone(ctx.decoder)
                                          THEN "InputsComplete" ELSE "AwaitingInput"]]
    /\ UNCHANGED <<endpoints, probe, pure>>

\* The transport delivers the next n bytes to the call's decoder chain
Feed(c, n) ==
    /\ call[c].state = "AwaitingInput"
    /\ n <= Len(call[c].wire)
    /\ LET old == call[c].decoder
           new == chain_process_bytes(old, tuple_take(n, call[c].wire))
       IN call' = [call EXCEPT ![c] =
                    [@ EXCEPT
                        !.decoder = new,
                        !.wire = tuple_skip(new.consumed - old.consumed, @),
                        !.state = IF new.failed THEN "DecodeFailed"
                                  ELSE IF ChainDone(new) THEN "InputsComplete"
                                  ELSE "AwaitingInput",
                        !.history = @ \o [i \in 1..(Len(new.values) - Len(old.values))
                                            |-> Event("decoded", Len(old.values) + i)]
                                      \o (IF new.failed
                                          THEN <<Event("decode_failed", new.pos)>>
                                          ELSE <<>>)]]
    /\ UNCHANGED <<endpoints, probe, pure>>

\* The stream ends before every argument has arrived
StreamEnd(c) ==
    /\ call[c].state = "AwaitingInput"
    /\ call' = [call EXCEPT ![c] =
                    [@ EXCEPT !.state = "DecodeFailed",
                              !.decoder = [@ EXCEPT !.failed = TRUE],
                              !.history = Append(@, Event("decode_failed",
                                                          call[c].decoder.pos))]]
    /\ UNCHANGED <<endpoints, probe, pure>>

\* The decoder chain has signalled completion: the connection layer calls
\* decoder_finished with the call's output pipe
OnInputsComplete(c) ==
    /\ call[c].state = "InputsComplete"
    /\ \E output \in Sinks,
          stores \in TuplesOf(impl_out_arg_vals_t(endpoints[call[c].ep])),
          ret \in TuplesOf(impl_out_ret_vals_t(endpoints[call[c].ep])) :
            call' = [call EXCEPT ![c] =
                        [decoder_finished(endpoints[call[c].ep], call[c],
                                          output, stores, ret)
                            EXCEPT !.state = "Done"]]
    /\ UNCHANGED <<endpoints, probe, pure>>

\* The owning connection is torn down: the call's context is discarded
Teardown(c) ==
    /\ call[c].state \in {"AwaitingInput", "InputsComplete", "DecodeFailed"}
    /\ call' = [call EXCEPT ![c] =
                    [@ EXCEPT !.state = "Discarded",
                              !.history = Append(@, Event("teardown", 0))]]
    /\ UNCHANGED <<endpoints, probe, pure>>

\* Variant: get_hash keeps the identifier it computed in the endpoint
QueryHash_memo(e) ==
    /\ probe' = [NoProbe EXCEPT !.op = "get_hash", !.ep = e,
                                !.hash = get_hash(endpoints[e])]
    /\ endpoints' = [endpoints EXCEPT ![e] =
                        [func_ |-> @.func_, metadata_ |-> @.metadata_,
                         hash_ |-> get_hash(@)]]
    /\ UNCHANGED <<call, pure>>

QueryHash(e) ==
    /\ probe' = [NoProbe EXCEPT !.op = "get_hash", !.ep = e,
                                !.hash = get_hash(endpoints[e])]
    /\ UNCHANGED <<endpoints, call, pure>>

QueryJson(e, has_output, has_length) ==
    /\ LET r == get_as_json(endpoints[e], has_output, has_length)
       IN probe' = [NoProbe EXCEPT !.op = "get_as_json", !.ep = e, !.ret = r.ret,
                                   !.output = r.output, !.length = r.length]
    /\ UNCHANGED <<endpoints, call, pure>>

Next ==
    \/ \E c \in DOMAIN call, e \in DOMAIN endpoints :
            \E w \in Wires(endpoints[e]) : BeginCall(c, e, w)
    \/ \E c \in DOMAIN call, n \in 1..MaxChunk : Feed(c, n)
    \/ \E c \in DOMAIN call : StreamEnd(c)
    \/ \E c \in DOMAIN call : OnInputsComplete(c)
    \/ \E c \in DOMAIN call : Teardown(c)
    \/ \E e \in DOMAIN endpoints : QueryHash(e)
    \/ \E e \in DOMAIN endpoints, ho \in BOOLEAN, hl \in BOOLEAN : QueryJson(e, ho, hl)

Spec == Init /\ [][Next]_vars

----------------------------------------------------------------------------
(* The registry: endpoints are built and registered one by one; a          *)
(* declaration that does not build registers nothing                       *)

InitRegistry ==
    /\ endpoints = <<>>
    /\ call = <<>>
    /\ probe = NoProbe
    /\ pure = NoPure

Register(ep) ==
    /\ Len(endpoints) < MaxEndpoints
    /\ Compiles(ep)
    /\ endpoints' = Append(endpoints, ep)
    /\ probe' = [NoProbe EXCEPT !.op = "registered", !.ep = Len(endpoints) + 1]
    /\ UNCHANGED <<call, pure>>

RejectRegistration(ep) ==
    /\ ~Compiles(ep)
    /\ probe' = [NoProbe EXCEPT !.op = "build_error"]
    /\ UNCHANGED <<endpoints, call, pure>>

NextRegistry ==
    \/ \E ep \in Candidates(MaxRegItems) : Register(ep)
    \/ \E ep \in Candidates(MaxRegItems) : RejectRegistration(ep)
    \/ \E e \in DOMAIN endpoints : QueryHash(e)

SpecRegistry == InitRegistry /\ [][NextRegistry]_vars

----------------------------------------------------------------------------
(* Building one endpoint: any declaration of up to MaxItems items against  *)
(* any native signature; it is registered if it builds                     *)

NextBuild ==
    \/ \E ep \in Candidates(MaxItems) : endpoints = <<>> /\ Register(ep)
    \/ \E ep \in Candidates(MaxItems) : RejectRegistration(ep)
    \/ \E e \in DOMAIN endpoints : QueryHash(e)

SpecBuild == InitRegistry /\ [][NextBuild]_vars

----------------------------------------------------------------------------
(* merge_to_io_tuple as a pure function: any tag sequence, with as many    *)
(* inputs and output references as it has tags of each kind                *)

TagSeqs == UNION {[1..n -> {arg_mode_input, arg_mode_output}] : n \in 0..MaxModes}

Count(modes, mode) == Cardinality({i \in 1..Len(modes) : modes[i] = mode})

InitMerge ==
    /\ endpoints = <<>>
    /\ call = <<>>
    /\ probe = NoProbe
    /\ \E modes \in TagSeqs :
        \E ins \in [1..Count(modes, arg_mode_input) -> {Val(v) : v \in InVals}] :
            pure = [fn |-> "merge_to_io_tuple",
                    arg_modes |-> modes,
                    in_refs |-> ins,
                    out_refs |-> [j \in 1..Count(modes, arg_mode_output) |-> Ref(j)],
                    done |-> FALSE,
                    result |-> <<>>]

ApplyMerge ==
    /\ ~pure.done
    /\ pure' = [pure EXCEPT
                    !.done = TRUE,
                    !.result = merge_to_io_tuple(pure.in_refs, pure.out_refs,
                                                 pure.arg_modes)]
    /\ UNCHANGED <<endpoints, call, probe>>

NextMerge == ApplyMerge

SpecMerge == InitMerge /\ [][NextMerge]_vars

----------------------------------------------------------------------------
(* The JSON descriptor as a pure function of a declaration: any function   *)
(* name and any list of metadata items                                     *)

FunctionNames == {"f", "move_to"}

DescribedItemKinds ==
    ItemKinds \cup
        {[proto |-> make_input_metadata_prototype(1, "y"), types |-> <<"uint32_t">>]}

InitJson ==
    /\ endpoints = <<>>
    /\ call = <<>>
    /\ probe = NoProbe
    /\ \E name \in FunctionNames :
        \E decl \in UNION {[1..n -> DescribedItemKinds] : n \in 0..MaxItems} :
            pure = [fn |-> "get_as_json",
                    function_name |-> name,
                    decl |-> decl,
                    done |-> FALSE,
                    result |-> ""]

\* make_function_metadata<TFreeArgs>(name).with_items(items...).json
ApplyJson ==
    /\ ~pure.done
    /\ pure' = [pure EXCEPT
                    !.done = TRUE,
                    !.result = with_items(
                                  make_function_metadata(FreeArgsOf(pure.decl),
                                                         pure.function_name),
                                  ProtosOf(pure.decl)).json]
    /\ UNCHANGED <<endpoints, call, probe>>

NextJson == ApplyJson

SpecJson == InitJson /\ [][NextJson]_vars

----------------------------------------------------------------------------
(* Introspection next to calls: get_as_json is asked again and again while *)
(* a call runs on the endpoint; what its first answers were is remembered  *)

InitDescribe ==
    /\ \E ep \in {ep \in Candidates(MaxRegItems) : Compiles(ep)} : endpoints = <<ep>>
    /\ call = [c \in CallIds |-> IdleCall]
    /\ probe = NoProbe
    /\ pure = [fn |-> "describe", first_output |-> NONE, first_length |-> -1]

\* get_as_json(output, length) with either pointer null or not; the first
\* text and the first length delivered are kept for comparison
Describe(e, has_output, has_length) ==
    /\ LET r == get_as_json(endpoints[e], has_output, has_length)
       IN /\ probe' = [op |-> "get_as_json", ep |-> e, ret |-> r.ret,
                       output |-> r.output, length |-> r.length, hash |-> -1,
                       asked_output |-> has_output, asked_length |-> has_length]
          /\ pure' = [pure EXCEPT
                        !.first_output = IF @ = NONE THEN r.output ELSE @,
                        !.first_length = IF @ = -1 THEN r.length ELSE @]
    /\ UNCHANGED <<endpoints, call>>

NextDescribe ==
    \/ \E c \in DOMAIN call, e \in DOMAIN endpoints :
            \E w \in Wires(endpoints[e]) : BeginCall(c, e, w)
    \/ \E c \in DOMAIN call, n \in 1..MaxChunk : Feed(c, n)
    \/ \E c \in DOMAIN call : OnInputsComplete(c)
    \/ \E e \in DOMAIN endpoints : QueryHash(e)
    \/ \E e \in DOMAIN endpoints, ho \in BOOLEAN, hl \in BOOLEAN : Describe(e, ho, hl)

SpecDescribe == InitDescribe /\ [][NextDescribe]_vars

----------------------------------------------------------------------------
(* Two calls in flight on the same endpoint: each has its own connection   *)
(* decoder and its own output pipe; their bytes arrive in any interleaving *)

ConcurrentIds == {"A", "B"}

\* The output pipes a call may be given: one with room, one that is closed
Pipes == {NewSink(MaxSinkSpace, "OK"), NewSink(0, "ERROR")}

InitConcurrent ==
    /\ \E ep \in RegisteredEndpoints :
        /\ endpoints = <<ep>>
        /\ \E sent \in [ConcurrentIds -> WireArgs(TInputDecoders(ep.metadata_))] :
                pure = [fn |-> "concurrent", sent |-> sent]
    /\ call = [c \in ConcurrentIds |-> IdleCall]
    /\ probe = NoProbe

\* decoder_finished for call c, with the call's own pipe
FinishCall(c, output) ==
    /\ call[c].state = "InputsComplete"
    /\ \E stores \in TuplesOf(impl_out_arg_vals_t(endpoints[call[c].ep])),
          ret \in TuplesOf(impl_out_ret_vals_t(endpoints[call[c].ep])) :
            call' = [call EXCEPT ![c] =
                        [decoder_finished(endpoints[call[c].ep], call[c],
                                          output, stores, ret)
                            EXCEPT !.state = "Done"]]
    /\ UNCHANGED <<endpoints, probe, pure>>

NextConcurrent ==
    \/ \E c \in DOMAIN call, e \in DOMAIN endpoints : BeginCall(c, e, pure.sent[c])
    \/ \E c \in DOMAIN call, n \in 1..MaxChunk : Feed(c, n)
    \/ \E c \in DOMAIN call : StreamEnd(c)
    \/ \E c \in DOMAIN call, output \in Pipes : FinishCall(c, output)

SpecConcurrent == InitConcurrent /\ [][NextConcurrent]_vars

----------------------------------------------------------------------------
(* The decoder chain of a declaration on its own: the chain the metadata   *)
(* names is installed and a stream is delivered to it turn by turn         *)

InitChain ==
    /\ endpoints = <<>>
    /\ call = <<>>
    /\ probe = NoProbe
    /\ \E decl \in DeclarationsUpTo(MaxItems) :
        LET md == with_items(make_function_metadata(FreeArgsOf(decl), "f"),
                             ProtosOf(decl))
        IN \E w \in WireArgs(TInputDecoders(md)), x \in ExtraBytes :
            pure = [fn |-> "chain",
                    decl |-> decl,
                    stream |-> w \o x,
                    rest |-> w \o x,
                    chain |-> NewChain(TInputDecoders(md)),
                    turns |-> 0,
                    ended |-> FALSE]

\* One scheduling turn: the next n bytes are offered, the chain takes what it
\* needs of them
Deliver(n) ==
    /\ ~pure.ended
    /\ ~pure.chain.failed
    /\ ~ChainDone(pure.chain)
    /\ n <= Len(pure.rest)
    /\ LET new == chain_process_bytes(pure.chain, tuple_take(n, pure.rest))
       IN pure' = [pure EXCEPT
                    !.chain = new,
                    !.turns = @ + 1,
                    !.rest = tuple_skip(new.consumed - pure.chain.consumed, @)]
    /\ UNCHANGED <<endpoints, call, probe>>

\* The stream ends with an element outstanding
EndOfStream ==
    /\ ~pure.ended
    /\ ~pure.chain.failed
    /\ ~ChainDone(pure.chain)
    /\ pure' = [pure EXCEPT !.ended = TRUE, !.chain = [@ EXCEPT !.failed = TRUE]]
    /\ UNCHANGED <<endpoints, call, probe>>

NextChain ==
    \/ \E n \in 1..MaxChunk : Deliver(n)
    \/ EndOfStream

SpecChain == InitChain /\ [][NextChain]_vars

----------------------------------------------------------------------------
(* The encoder chain on its own: any list of encoders, any values of their *)
(* types, any sink                                                         *)

\* The encoder types an output item can name
EncoderKinds ==
    {OutputMetadata("r", <<"uint32_t&">>, FALSE).encoder_type,
     OutputMetadata("s", <<"const char*&", "size_t&">>, FALSE).encoder_type,
     OutputMetadata("d", <<"uint32_t&">>, TRUE).encoder_type,
     OutputMetadata("t", <<"const char*&", "size_t&">>, TRUE).encoder_type}

InitEncode ==
    /\ endpoints = <<>>
    /\ call = <<>>
    /\ probe = NoProbe
    /\ \E encoders \in UNION {[1..n -> EncoderKinds] : n \in 0..MaxItems} :
        \E values \in TuplesOf(tuple_cat_all([k \in 1..Len(encoders) |-> encoders[k].types])),
           output \in Sinks :
            pure = [fn |-> "serialize",
                    encoders |-> encoders,
                    values |-> values,
                    output |-> output,
                    done |-> FALSE,
                    sink |-> output]

\* TOutputEncoders::serialize(output, values)
ApplyEncode ==
    /\ ~pure.done
    /\ pure' = [pure EXCEPT
                    !.done = TRUE,
                    !.sink = EncoderChain_serialize(pure.encoders, pure.output,
                                                    pure.values, 1)]
    /\ UNCHANGED <<endpoints, call, probe>>

NextEncode == ApplyEncode

SpecEncode == InitEncode /\ [][NextEncode]_vars

----------------------------------------------------------------------------
(* The metadata builder call by call: make_function_metadata over any list *)
(* of free argument types, then with_item for any item the free types      *)
(* still have room for                                                     *)

FreeArgTypes == {"uint32_t", "uint32_t&", "size_t&"}

BuilderItems ==
    {make_input_metadata_prototype(0, "n"),
     make_input_metadata_prototype(1, "x"),
     make_input_metadata_prototype(2, "xy"),
     make_output_metadata_prototype(1, FALSE, "r"),
     make_output_metadata_prototype(2, FALSE, "s"),
     make_output_metadata_prototype(1, TRUE, "d")}

InitBuilder ==
    /\ endpoints = <<>>
    /\ call = <<>>
    /\ probe = NoProbe
    /\ \E name \in FunctionNames :
        \E free \in UNION {[1..n -> FreeArgTypes] : n \in 0..MaxModes} :
            pure = [fn |-> "builder",
                    function_name |-> name,
                    free |-> free,
                    items |-> <<>>,
                    before |-> make_function_metadata(free, name),
                    md |-> make_function_metadata(free, name)]

\* md.with_item(item); tuple_take_t needs item.nparams free types
WithItem(item) ==
    /\ pure.fn = "builder"
    /\ Len(pure.items) < MaxItems
    /\ item.nparams <= Len(pure.md.TFreeArgs)
    /\ pure' = [pure EXCEPT
                    !.items = Append(@, item),
                    !.before = pure.md,
                    !.md = with_item(pure.md, item)]
    /\ UNCHANGED <<endpoints, call, probe>>

NextBuilder == \E item \in BuilderItems : WithItem(item)

SpecBuilder == InitBuilder /\ [][NextBuilder]_vars

----------------------------------------------------------------------------
(* The integer encoders at their full width. A uint32_t is two 16-bit      *)
(* limbs and a size_t four, least significant limb first, so that every    *)
(* value of the type is at hand, 2^32 - 1 and the lengths beyond 32 bits   *)
(* included.                                                               *)

LimbValues == {0, 1, 2, 4660, 32768, 65535}

UInt32Values == {<<lo, hi>> : lo \in LimbValues, hi \in LimbValues}

SizeValues ==
    {<<l0, l1, l2, 0>> : l0 \in {0, 2, 65535}, l1 \in {0, 1, 65535}, l2 \in {0, 1}}
        \cup {<<65535, 65535, 65535, 65535>>}

\* write_le<uint32_t> on limbs: each limb gives its low byte then its high
write_le_limbs(w) ==
    <<w[1] % 256, w[1] \div 256, w[2] % 256, w[2] \div 256>>

\* read_le<uint32_t> on limbs
read_le_limbs(buf) ==
    <<buf[1] + 256 * buf[2], buf[3] + 256 * buf[4]>>

\* The conversion size_t -> uint32_t keeps the low 32 bits
to_uint32(length) == <<length[1], length[2]>>

\* Variant: the most significant byte first
Encoder_uint32_serialize_be(output, value) ==
    process_bytes(output, <<value[2] \div 256, value[2] % 256,
                            value[1] \div 256, value[1] % 256>>)

\* Encoder<uint32_t>::serialize on a value of the full range
Encoder_uint32_serialize_wide(output, value) ==
    process_bytes(output, write_le_limbs(value))

\* Encoder<const char *, size_t>::serialize on a length of the full range:
\* the prefix request, and whether and with which length the string's bytes
\* are requested after it
Encoder_string_serialize_wide(output, present, length) ==
    LET i == IF present THEN to_uint32(length) ELSE <<0, 0>>
        o1 == process_bytes(output, write_le_limbs(i))
    IN IF last_status(o1) # "OK" \/ last_processed(o1) # 4
       THEN [sink |-> o1, payload |-> FALSE, length |-> <<0, 0, 0, 0>>]
       ELSE IF present
            THEN [sink |-> o1, payload |-> TRUE, length |-> length]
            ELSE [sink |-> o1, payload |-> FALSE, length |-> <<0, 0, 0, 0>>]

InitWidth ==
    /\ endpoints = <<>>
    /\ call = <<>>
    /\ probe = NoProbe
    /\ \E output \in Sinks :
        \/ \E value \in UInt32Values :
                pure = [fn |-> "uint32", value |-> value, output |-> output,
                        stage |-> "fresh", sink |-> output,
                        decoded |-> <<0, 0>>]
        \/ \E length \in SizeValues, present \in BOOLEAN :
                pure = [fn |-> "string", present |-> present,
                        length |-> length, output |-> output,
                        stage |-> "fresh", sink |-> output,
                        payload |-> FALSE, asked |-> <<0, 0, 0, 0>>]

\* Encoder<uint32_t>::serialize(output, value)
EncodeUInt32 ==
    /\ pure.fn = "uint32"
    /\ pure.stage = "fresh"
    /\ pure' = [pure EXCEPT
                    !.stage = "encoded",
                    !.sink = Encoder_uint32_serialize_wide(pure.output, pure.value)]
    /\ UNCHANGED <<endpoints, call, probe>>

\* Decoder<uint32_t> given the four bytes the sink took
DecodeUInt32 ==
    /\ pure.fn = "uint32"
    /\ pure.stage = "encoded"
    /\ last_processed(pure.sink) = 4
    /\ pure' = [pure EXCEPT
                    !.stage = "decoded",
                    !.decoded = read_le_limbs(
                        SubSeq(pure.sink.log[1].buffer, 1, 4))]
    /\ UNCHANGED <<endpoints, call, probe>>

\* Encoder<const char *, size_t>::serialize(output, str, length)
EncodeLength ==
    /\ pure.fn = "string"
    /\ pure.stage = "fresh"
    /\ LET r == Encoder_string_serialize_wide(pure.output, pure.present,
                                              pure.length)
       IN pure' = [pure EXCEPT
                      !.stage = "encoded",
                      !.sink = r.sink,
                      !.payload = r.payload,
                      !.asked = r.length]
    /\ UNCHANGED <<endpoints, call, probe>>

NextWidth ==
    \/ EncodeUInt32
    \/ DecodeUInt32
    \/ EncodeLength

SpecWidth == InitWidth /\ [][NextWidth]_vars

----------------------------------------------------------------------------
(* D-Bus messages (dbus.hpp). An argument of a message is its type id, its *)
(* 32-bit value as two 16-bit limbs (integers and booleans) and its bytes  *)
(* (strings; null is a string libdbus hands out as a null pointer). A C++  *)
(* value is a limb pair and a byte string. An iterator is the arguments,   *)
(* a position, and the positions dbus_message_iter_get_basic was called on *)
(* A container argument (array, dictionary entry, variant) has the         *)
(* signature of its contents, the arguments it contains and whether it was *)
(* closed. A vector is its elements, a dictionary its entries in the order *)
(* of iteration, a variant the index of its alternative and the value, a   *)
(* DBusObject its three members.                                           *)

MaxArgs == 2

DBusArg(type, v, str, null) == [type |-> type, v |-> v, str |-> str, null |-> null, sig |-> "", elems |-> <<>>, closed |-> TRUE]

DBusContainer(type, sig, elems, closed) == [type |-> type, v |-> <<0, 0>>, str |-> <<>>, null |-> FALSE, sig |-> sig, elems |-> elems, closed |-> closed]

CppVal(v, str) == [v |-> v, str |-> str]

CppVector(elems) == [elems |-> elems]

CppMap(entries) == [entries |-> entries]

CppVariant(index, val) == [index |-> index, val |-> val]

CppObject(conn, service_name, object_name) == [conn |-> conn, service_name |-> service_name, object_name |-> object_name]

CppTypes == {"unsigned int", "bool", "std::string"}

IntegralTypes ==
    {"short", "int", "long", "long long", "unsigned char", "unsigned short",
     "unsigned int", "unsigned long", "unsigned long long"}

VectorTypes == {"std::vector<std::string>"}

MapTypes == {"std::unordered_map<std::string, dbus_variant>"}

VariantTypes == {"dbus_variant"}

\* TElement of std::vector<TElement>
ElementType(T) == "std::string"

\* TKey and TVal of std::unordered_map<TKey, TVal>
KeyType(T) == "std::string"

ValType(T) == "dbus_variant"

\* Ts... of std::variant<Ts...>: dbus_variant
Alternatives(T) ==
    <<"std::string", "bool", "DBusObject",
      "short", "int", "long", "long long",
      "unsigned char", "unsigned short", "unsigned int", "unsigned long",
      "unsigned long long",
      "std::vector<std::string>">>

\* sizeof(long) * CHAR_BIT where long has 64 bits (LP64)
LongBits == 64

\* sizeof(T) * CHAR_BIT
BITS(T) ==
    IF T = "unsigned char" THEN 8
    ELSE IF T \in {"short", "unsigned short"} THEN 16
    ELSE IF T \in {"int", "unsigned int"} THEN 32
    ELSE IF T \in {"long", "unsigned long"} THEN LongBits
    ELSE 64

is_signed(T) == T \in {"short", "int", "long", "long long"}

get_int_type_id(bits, signed) ==
    IF signed
    THEN (IF bits = 16 THEN "DBUS_TYPE_INT16"
          ELSE IF bits = 32 THEN "DBUS_TYPE_INT32" ELSE "DBUS_TYPE_INT64")
    ELSE (IF bits = 8 THEN "DBUS_TYPE_BYTE"
          ELSE IF bits = 16 THEN "DBUS_TYPE_UINT16"
          ELSE IF bits = 32 THEN "DBUS_TYPE_UINT32" ELSE "DBUS_TYPE_UINT64")

get_int_signature(bits, signed) ==
    IF signed
    THEN (IF bits = 16 THEN "n" ELSE IF bits = 32 THEN "i" ELSE "x")
    ELSE (IF bits = 8 THEN "y"
          ELSE IF bits = 16 THEN "q"
          ELSE IF bits = 32 THEN "u" ELSE "t")

\* DBusTypeTraits<T>::type_id
type_id(T) ==
    IF T \in IntegralTypes THEN get_int_type_id(BITS(T), is_signed(T))
    ELSE IF T = "bool" THEN "DBUS_TYPE_BOOLEAN"
    ELSE IF T = "DBusObject" THEN "DBUS_TYPE_OBJECT_PATH"
    ELSE IF T \in VectorTypes \cup MapTypes THEN "DBUS_TYPE_ARRAY"
    ELSE IF T \in VariantTypes THEN "DBUS_TYPE_VARIANT"
    ELSE "DBUS_TYPE_STRING"

\* DBusTypeTraits<T>::signature, get_signature<T>()
RECURSIVE get_signature(_)
get_signature(T) ==
    IF T \in IntegralTypes THEN get_int_signature(BITS(T), is_signed(T))
    ELSE IF T = "bool" THEN "b"
    ELSE IF T = "DBusObject" THEN "o"
    ELSE IF T \in VectorTypes THEN "a" \o get_signature(ElementType(T))
    ELSE IF T \in MapTypes
    THEN "a" \o "{" \o get_signature(KeyType(T)) \o get_signature(ValType(T)) \o "}"
    ELSE IF T \in VariantTypes THEN "v"
    ELSE "s"

\* dbus_message_iter_init
dbus_message_iter_init(args) == [args |-> args, pos |-> 1, popped |-> <<>>]

dbus_message_iter_get_arg_type(iter) ==
    IF iter.pos > Len(iter.args) THEN "DBUS_TYPE_INVALID"
    ELSE iter.args[iter.pos].type

dbus_message_iter_next(iter) == [iter EXCEPT !.pos = @ + 1]

\* dbus_message_iter_get_basic: the argument under the iterator
dbus_message_iter_get_basic(iter) == iter.args[iter.pos]

Popped(iter) == [iter EXCEPT !.popped = Append(@, iter.pos)]

\* std::string(c_str): the bytes up to the first zero byte
RECURSIVE string_of(_)
string_of(c_str) ==
    IF c_str = <<>> \/ Head(c_str) = 0 THEN <<>>
    ELSE <<Head(c_str)>> \o string_of(Tail(c_str))

\* DBusTypeTraits<T>::pop for an integral T
DBusTypeTraits_integral_pop(iter, val) ==
    [result |-> 0, iter |-> Popped(iter),
     val |-> CppVal(dbus_message_iter_get_basic(iter).v, <<>>)]

\* Variant: every value other than 0 is taken for true
DBusTypeTraits_bool_pop_lenient(iter, val) ==
    LET val_as_int == dbus_message_iter_get_basic(iter).v
    IN IF val_as_int = <<0, 0>>
       THEN [result |-> 0, iter |-> Popped(iter), val |-> CppVal(<<0, 0>>, <<>>)]
       ELSE [result |-> 0, iter |-> Popped(iter), val |-> CppVal(<<1, 0>>, <<>>)]

\* DBusTypeTraits<bool>::pop
DBusTypeTraits_bool_pop(iter, val) ==
    LET val_as_int == dbus_message_iter_get_basic(iter).v
    IN IF val_as_int = <<0, 0>>
       THEN [result |-> 0, iter |-> Popped(iter), val |-> CppVal(<<0, 0>>, <<>>)]
       ELSE IF val_as_int = <<1, 0>>
       THEN [result |-> 0, iter |-> Popped(iter), val |-> CppVal(<<1, 0>>, <<>>)]
       ELSE [result |-> -1, iter |-> Popped(iter), val |-> val]

\* DBusTypeTraits<std::string>::pop
DBusTypeTraits_string_pop(iter, val) ==
    LET arg == dbus_message_iter_get_basic(iter)
    IN IF arg.null
       THEN [result |-> -1, iter |-> Popped(iter), val |-> val]
       ELSE [result |-> 0, iter |-> Popped(iter),
             val |-> CppVal(<<0, 0>>, string_of(arg.str))]

\* DBusTypeTraits<DBusObject>::pop: DBusObject(nullptr, "", object_path)
DBusTypeTraits_object_pop(iter, val) ==
    LET r == DBusTypeTraits_string_pop(iter, CppVal(<<0, 0>>, <<>>))
    IN [result |-> r.result, iter |-> r.iter,
        val |-> IF r.result = 0 THEN CppObject("nullptr", <<>>, r.val.str)
                ELSE val]

\* dbus_message_iter_recurse: an iterator over what the container under
\* iter contains
dbus_message_iter_recurse(iter) ==
    dbus_message_iter_init(iter.args[iter.pos].elems)

\* The signature of one argument of a message
dbus_signature_of(arg) ==
    IF arg.type = "DBUS_TYPE_BYTE" THEN "y"
    ELSE IF arg.type = "DBUS_TYPE_BOOLEAN" THEN "b"
    ELSE IF arg.type = "DBUS_TYPE_INT16" THEN "n"
    ELSE IF arg.type = "DBUS_TYPE_UINT16" THEN "q"
    ELSE IF arg.type = "DBUS_TYPE_INT32" THEN "i"
    ELSE IF arg.type = "DBUS_TYPE_UINT32" THEN "u"
    ELSE IF arg.type = "DBUS_TYPE_INT64" THEN "x"
    ELSE IF arg.type = "DBUS_TYPE_UINT64" THEN "t"
    ELSE IF arg.type = "DBUS_TYPE_DOUBLE" THEN "d"
    ELSE IF arg.type = "DBUS_TYPE_OBJECT_PATH" THEN "o"
    ELSE IF arg.type = "DBUS_TYPE_ARRAY" THEN "a" \o arg.sig
    ELSE IF arg.type = "DBUS_TYPE_VARIANT" THEN "v"
    ELSE "s"

\* dbus_message_iter_get_signature: the signature of the argument under
\* the iterator
dbus_message_iter_get_signature(iter) ==
    IF iter.pos > Len(iter.args) THEN ""
    ELSE dbus_signature_of(iter.args[iter.pos])

\* T{}: a value-initialized T
ValueInitialized(T) ==
    IF T = "DBusObject" THEN CppObject("nullptr", <<>>, <<>>)
    ELSE IF T \in VectorTypes THEN CppVector(<<>>)
    ELSE CppVal(<<0, 0>>, <<>>)

RECURSIVE DBusTypeTraits_pop(_, _, _)

\* while (...) of DBusTypeTraits<std::vector<TElement>>::pop
RECURSIVE vector_pop_elements(_, _, _)
vector_pop_elements(T, subiter, val) ==
    IF dbus_message_iter_get_arg_type(subiter) = "DBUS_TYPE_INVALID"
    THEN [result |-> 0, iter |-> subiter, val |-> val]
    ELSE LET r == DBusTypeTraits_pop(ElementType(T), subiter,
                                     ValueInitialized(ElementType(T)))
         IN IF r.result # 0 THEN [result |-> -1, iter |-> r.iter, val |-> val]
            ELSE vector_pop_elements(T, dbus_message_iter_next(r.iter),
                                     CppVector(Append(val.elems, r.val)))

\* DBusTypeTraits<std::vector<TElement>>::pop
DBusTypeTraits_vector_pop(T, iter, val) ==
    LET r == vector_pop_elements(T, dbus_message_iter_recurse(iter), val)
    IN [result |-> r.result, iter |-> iter, val |-> r.val]

\* Variant: of the alternatives whose signature is the one of the message,
\* the one declared last is taken
RECURSIVE variant_helper_pop_last(_, _, _, _, _)
variant_helper_pop_last(T, I, iter, val, signature) ==
    IF I = Len(Alternatives(T)) THEN [result |-> -1, iter |-> iter, val |-> val]
    ELSE IF /\ get_signature(Alternatives(T)[I + 1]) = signature
            /\ \A J \in (I + 2)..Len(Alternatives(T)) :
                    get_signature(Alternatives(T)[J]) # signature
    THEN LET r == DBusTypeTraits_pop(Alternatives(T)[I + 1], iter,
                                     ValueInitialized(Alternatives(T)[I + 1]))
         IN [result |-> r.result, iter |-> r.iter, val |-> CppVariant(I, r.val)]
    ELSE variant_helper_pop_last(T, I + 1, iter, val, signature)

\* variant_helper<I, N, std::variant<Ts...>>::pop: val is assigned whatever
\* the pop of the alternative returns
RECURSIVE variant_helper_pop(_, _, _, _, _)
variant_helper_pop(T, I, iter, val, signature) ==
    IF I = Len(Alternatives(T)) THEN [result |-> -1, iter |-> iter, val |-> val]
    ELSE IF get_signature(Alternatives(T)[I + 1]) = signature
    THEN LET r == DBusTypeTraits_pop(Alternatives(T)[I + 1], iter,
                                     ValueInitialized(Alternatives(T)[I + 1]))
         IN [result |-> r.result, iter |-> r.iter, val |-> CppVariant(I, r.val)]
    ELSE variant_helper_pop(T, I + 1, iter, val, signature)

\* DBusTypeTraits<std::variant<Ts...>>::pop
DBusTypeTraits_variant_pop(T, iter, val) ==
    LET subiter == dbus_message_iter_recurse(iter)
        signature == dbus_message_iter_get_signature(subiter)
        r == variant_helper_pop(T, 0, subiter, val, signature)
    IN [result |-> r.result, iter |-> iter, val |-> r.val]

\* No operation of the model pops a dictionary
DBusTypeTraits_pop(T, iter, val) ==
    IF T \in IntegralTypes THEN DBusTypeTraits_integral_pop(iter, val)
    ELSE IF T = "bool" THEN DBusTypeTraits_bool_pop(iter, val)
    ELSE IF T = "DBusObject" THEN DBusTypeTraits_object_pop(iter, val)
    ELSE IF T \in VectorTypes THEN DBusTypeTraits_vector_pop(T, iter, val)
    ELSE IF T \in VariantTypes THEN DBusTypeTraits_variant_pop(T, iter, val)
    ELSE DBusTypeTraits_string_pop(iter, val)

\* Variant: arguments left over after the last expected one are accepted
RECURSIVE unpack_message_open(_, _, _, _)
unpack_message_open(iter, types, vals, k) ==
    IF k > Len(types)
    THEN [result |-> 0, iter |-> iter, vals |-> vals]
    ELSE IF dbus_message_iter_get_arg_type(iter) # type_id(types[k])
    THEN [result |-> -1, iter |-> iter, vals |-> vals]
    ELSE LET r == DBusTypeTraits_pop(types[k], iter, vals[k])
         IN IF r.result # 0
            THEN [result |-> -1, iter |-> r.iter,
                  vals |-> [vals EXCEPT ![k] = r.val]]
            ELSE unpack_message_open(dbus_message_iter_next(r.iter), types,
                                     [vals EXCEPT ![k] = r.val], k + 1)

\* unpack_message<Ts...>(iter, args...): types and vals are Ts... and the
\* referenced variables, k the position of the first one not yet handled
RECURSIVE unpack_message(_, _, _, _)
unpack_message(iter, types, vals, k) ==
    IF k > Len(types)
    THEN IF dbus_message_iter_get_arg_type(iter) # "DBUS_TYPE_INVALID"
         THEN [result |-> -1, iter |-> iter, vals |-> vals]
         ELSE [result |-> 0, iter |-> iter, vals |-> vals]
    ELSE IF dbus_message_iter_get_arg_type(iter) # type_id(types[k])
    THEN [result |-> -1, iter |-> iter, vals |-> vals]
    ELSE LET r == DBusTypeTraits_pop(types[k], iter, vals[k])
         IN IF r.result # 0
            THEN [result |-> -1, iter |-> r.iter,
                  vals |-> [vals EXCEPT ![k] = r.val]]
            ELSE unpack_message(dbus_message_iter_next(r.iter), types,
                                [vals EXCEPT ![k] = r.val], k + 1)

\* dbus_message_iter_init_append. libdbus allocates in append_basic,
\* open_container and close_container; oom holds the numbers of the calls,
\* counted over the message, that find no memory. open counts the
\* containers of the message that are open.
dbus_message_iter_init_append(oom) ==
    [args |-> <<>>, calls |-> 0, oom |-> oom, open |-> 0]

OutOfMemory(iter) == (iter.calls + 1) \in iter.oom

Called(iter) == [iter EXCEPT !.calls = @ + 1]

\* dbus_message_iter_append_basic: FALSE when out of memory
dbus_message_iter_append_basic(iter, arg) ==
    IF OutOfMemory(iter) THEN [ok |-> FALSE, iter |-> Called(iter)]
    ELSE [ok |-> TRUE, iter |-> [Called(iter) EXCEPT !.args = Append(@, arg)]]

\* dbus_message_iter_open_container: FALSE when out of memory; otherwise
\* the container is in the message, open, and sub writes into it
dbus_message_iter_open_container(iter, type, sig) ==
    IF OutOfMemory(iter)
    THEN [ok |-> FALSE, iter |-> Called(iter), sub |-> Called(iter)]
    ELSE [ok |-> TRUE,
          iter |-> [Called(iter) EXCEPT
                        !.args = Append(@, DBusContainer(type, sig, <<>>, FALSE)),
                        !.open = @ + 1],
          sub |-> [args |-> <<>>, calls |-> iter.calls + 1, oom |-> iter.oom,
                   open |-> iter.open + 1]]

\* The message as seen from iter after sub has written into the container
\* opened last
Adopt(iter, sub) ==
    [iter EXCEPT !.calls = sub.calls, !.open = sub.open,
                 !.args[Len(iter.args)].elems = sub.args]

\* dbus_message_iter_close_container: FALSE when out of memory, and sub is
\* closed then as well
dbus_message_iter_close_container(iter, sub) ==
    LET it == Adopt(iter, sub)
    IN IF OutOfMemory(it)
       THEN [ok |-> FALSE, iter |-> [Called(it) EXCEPT !.open = @ - 1]]
       ELSE [ok |-> TRUE,
             iter |-> [Called(it) EXCEPT !.args[Len(it.args)].closed = TRUE,
                                         !.open = @ - 1]]

\* DBusTypeTraits<T>::push for an integral T
DBusTypeTraits_integral_push(T, iter, val) ==
    LET r == dbus_message_iter_append_basic(
                iter, DBusArg(type_id(T), val.v, <<>>, FALSE))
    IN [result |-> IF r.ok THEN 0 ELSE -1, iter |-> r.iter]

\* DBusTypeTraits<bool>::push
DBusTypeTraits_bool_push(iter, val) ==
    LET val_as_int == IF val.v # <<0, 0>> THEN <<1, 0>> ELSE <<0, 0>>
        r == dbus_message_iter_append_basic(
                iter, DBusArg("DBUS_TYPE_BOOLEAN", val_as_int, <<>>, FALSE))
    IN [result |-> IF r.ok THEN 0 ELSE -1, iter |-> r.iter]

\* DBusTypeTraits<std::string>::push: libdbus copies val.c_str()
DBusTypeTraits_string_push(iter, val) ==
    LET r == dbus_message_iter_append_basic(
                iter, DBusArg("DBUS_TYPE_STRING", <<0, 0>>,
                              string_of(val.str), FALSE))
    IN [result |-> IF r.ok THEN 0 ELSE -1, iter |-> r.iter]

\* DBusTypeTraits<DBusObject>::push: the object path is object_name_
DBusTypeTraits_object_push(iter, val) ==
    LET r == dbus_message_iter_append_basic(
                iter, DBusArg("DBUS_TYPE_OBJECT_PATH", <<0, 0>>,
                              string_of(val.object_name), FALSE))
    IN [result |-> IF r.ok THEN 0 ELSE -1, iter |-> r.iter]

RECURSIVE DBusTypeTraits_push(_, _, _)

\* for (TElement& el: val) of DBusTypeTraits<std::vector<TElement>>::push
RECURSIVE vector_push_elements(_, _, _, _)
vector_push_elements(T, subiter, val, k) ==
    IF k > Len(val.elems) THEN [result |-> 0, iter |-> subiter]
    ELSE LET r == DBusTypeTraits_push(ElementType(T), subiter, val.elems[k])
         IN IF r.result # 0 THEN [result |-> -1, iter |-> r.iter]
            ELSE vector_push_elements(T, r.iter, val, k + 1)

\* DBusTypeTraits<std::vector<TElement>>::push
DBusTypeTraits_vector_push(T, iter, val) ==
    LET o == dbus_message_iter_open_container(
                iter, "DBUS_TYPE_ARRAY", get_signature(ElementType(T)))
    IN IF ~o.ok THEN [result |-> -1, iter |-> o.iter]
       ELSE LET e == vector_push_elements(T, o.sub, val, 1)
            IN IF e.result # 0
               THEN [result |-> -1, iter |-> Adopt(o.iter, e.iter)]
               ELSE LET c == dbus_message_iter_close_container(o.iter, e.iter)
                    IN [result |-> IF c.ok THEN 0 ELSE -1, iter |-> c.iter]

\* for (auto& it: val) of DBusTypeTraits<std::unordered_map<TKey, TVal>>::push:
\* what the pushes of the key and of the value return is not looked at
RECURSIVE map_push_entries(_, _, _, _)
map_push_entries(T, dict, val, k) ==
    IF k > Len(val.entries) THEN [result |-> 0, iter |-> dict]
    ELSE LET o == dbus_message_iter_open_container(dict, "DBUS_TYPE_DICT_ENTRY", "")
         IN IF ~o.ok THEN [result |-> -1, iter |-> o.iter]
            ELSE LET rk == DBusTypeTraits_push(KeyType(T), o.sub, val.entries[k].key)
                     rv == DBusTypeTraits_push(ValType(T), rk.iter, val.entries[k].val)
                     c == dbus_message_iter_close_container(o.iter, rv.iter)
                 IN IF ~c.ok THEN [result |-> -1, iter |-> c.iter]
                    ELSE map_push_entries(T, c.iter, val, k + 1)

\* DBusTypeTraits<std::unordered_map<TKey, TVal>>::push
DBusTypeTraits_map_push(T, iter, val) ==
    LET o == dbus_message_iter_open_container(
                iter, "DBUS_TYPE_ARRAY",
                "{" \o get_signature(KeyType(T)) \o get_signature(ValType(T)) \o "}")
    IN IF ~o.ok THEN [result |-> -1, iter |-> o.iter]
       ELSE LET e == map_push_entries(T, o.sub, val, 1)
            IN IF e.result # 0
               THEN [result |-> -1, iter |-> Adopt(o.iter, e.iter)]
               ELSE LET c == dbus_message_iter_close_container(o.iter, e.iter)
                    IN [result |-> IF c.ok THEN 0 ELSE -1, iter |-> c.iter]

\* variant_helper<I, N, std::variant<Ts...>>::get_element_signature
RECURSIVE variant_helper_get_element_signature(_, _, _)
variant_helper_get_element_signature(T, I, val) ==
    IF I = Len(Alternatives(T)) THEN "nullptr"
    ELSE IF val.index = I THEN get_signature(Alternatives(T)[I + 1])
    ELSE variant_helper_get_element_signature(T, I + 1, val)

\* variant_helper<I, N, std::variant<Ts...>>::push
RECURSIVE variant_helper_push(_, _, _, _)
variant_helper_push(T, I, iter, val) ==
    IF I = Len(Alternatives(T)) THEN [result |-> -1, iter |-> iter]
    ELSE IF val.index = I
    THEN DBusTypeTraits_push(Alternatives(T)[I + 1], iter, val.val)
    ELSE variant_helper_push(T, I + 1, iter, val)

\* DBusTypeTraits<std::variant<Ts...>>::push
DBusTypeTraits_variant_push(T, iter, val) ==
    LET o == dbus_message_iter_open_container(
                iter, "DBUS_TYPE_VARIANT",
                variant_helper_get_element_signature(T, 0, val))
    IN IF ~o.ok THEN [result |-> -1, iter |-> o.iter]
       ELSE LET r == variant_helper_push(T, 0, o.sub, val)
                c == dbus_message_iter_close_container(o.iter, r.iter)
            IN [result |-> IF c.ok THEN r.result ELSE -1, iter |-> c.iter]

DBusTypeTraits_push(T, iter, val) ==
    IF T \in IntegralTypes THEN DBusTypeTraits_integral_push(T, iter, val)
    ELSE IF T = "bool" THEN DBusTypeTraits_bool_push(iter, val)
    ELSE IF T = "DBusObject" THEN DBusTypeTraits_object_push(iter, val)
    ELSE IF T \in VectorTypes THEN DBusTypeTraits_vector_push(T, iter, val)
    ELSE IF T \in MapTypes THEN DBusTypeTraits_map_push(T, iter, val)
    ELSE IF T \in VariantTypes THEN DBusTypeTraits_variant_push(T, iter, val)
    ELSE DBusTypeTraits_string_push(iter, val)

\* pack_message<Ts...>(iter, args...)
RECURSIVE pack_message(_, _, _, _)
pack_message(iter, types, vals, k) ==
    IF k > Len(types) THEN [result |-> 0, iter |-> iter]
    ELSE LET r == DBusTypeTraits_push(types[k], iter, vals[k])
         IN IF r.result # 0 THEN [result |-> -1, iter |-> r.iter]
            ELSE pack_message(r.iter, types, vals, k + 1)

\* The arguments a message may hold
MessageArgs ==
    {DBusArg("DBUS_TYPE_UINT32", v, <<>>, FALSE) : v \in {<<7, 0>>, <<65535, 65535>>}}
    \cup {DBusArg("DBUS_TYPE_BOOLEAN", v, <<>>, FALSE) :
                v \in {<<0, 0>>, <<1, 0>>, <<2, 0>>, <<0, 1>>}}
    \cup {DBusArg("DBUS_TYPE_STRING", <<0, 0>>, <<104, 105>>, FALSE),
          DBusArg("DBUS_TYPE_STRING", <<0, 0>>, <<>>, TRUE)}

\* The values a variable of type T may hold
CppValues(T) ==
    IF T = "unsigned int" THEN {CppVal(<<3, 0>>, <<>>)}
    ELSE IF T = "bool" THEN {CppVal(<<0, 0>>, <<>>), CppVal(<<1, 0>>, <<>>)}
    ELSE {CppVal(<<0, 0>>, <<111>>)}

CppTuples(types) ==
    {t \in [1..Len(types) -> UNION {CppValues(T) : T \in CppTypes}] :
        \A i \in 1..Len(types) : t[i] \in CppValues(types[i])}

InitMessage ==
    /\ endpoints = <<>>
    /\ call = <<>>
    /\ probe = NoProbe
    /\ \E types \in UNION {[1..n -> CppTypes] : n \in 0..MaxArgs} :
        \E vals \in CppTuples(types) :
            \/ \E args \in UNION {[1..n -> MessageArgs] : n \in 0..MaxArgs} :
                    pure = [fn |-> "unpack",
                            args |-> args,
                            types |-> types,
                            before |-> vals,
                            done |-> FALSE,
                            result |-> 0,
                            iter |-> dbus_message_iter_init(args),
                            vals |-> vals]
            \/ \E oom \in SUBSET (1..MaxArgs) :
                    pure = [fn |-> "pack",
                            types |-> types,
                            vals |-> vals,
                            done |-> FALSE,
                            result |-> 0,
                            iter |-> dbus_message_iter_init_append(oom)]

\* unpack_message(&iter, vals...)
Unpack ==
    /\ pure.fn = "unpack"
    /\ ~pure.done
    /\ LET r == unpack_message(pure.iter, pure.types, pure.vals, 1)
       IN pure' = [pure EXCEPT
                      !.done = TRUE,
                      !.result = r.result,
                      !.iter = r.iter,
                      !.vals = r.vals]
    /\ UNCHANGED <<endpoints, call, probe>>

\* pack_message(&iter, vals...)
Pack ==
    /\ pure.fn = "pack"
    /\ ~pure.done
    /\ LET r == pack_message(pure.iter, pure.types, pure.vals, 1)
       IN pure' = [pure EXCEPT
                      !.done = TRUE,
                      !.result = r.result,
                      !.iter = r.iter]
    /\ UNCHANGED <<endpoints, call, probe>>

NextMessage ==
    \/ Unpack
    \/ Pack

SpecMessage == InitMessage /\ [][NextMessage]_vars

----------------------------------------------------------------------------
(* Replies (dbus.hpp): a message is its type and its arguments; a callback *)
(* is a pointer to a Callback<TOutputs...>, which holds a function pointer *)
(* and a context                                                           *)

DBusMessage(type, args) == [type |-> type, args |-> args]

MessageTypes ==
    {"DBUS_MESSAGE_TYPE_METHOD_RETURN", "DBUS_MESSAGE_TYPE_ERROR",
     "DBUS_MESSAGE_TYPE_SIGNAL"}

Callback(ptr, callback, ctx) == [ptr |-> ptr, callback |-> callback, ctx |-> ctx]

Callbacks ==
    {Callback(FALSE, FALSE, 0), Callback(TRUE, FALSE, 5), Callback(TRUE, TRUE, 5)}

\* std::tuple<TOutputs...> values;
DefaultValues(TOutputs) == [k \in 1..Len(TOutputs) |-> CppVal(<<0, 0>>, <<>>)]

\* Variant: the type of the message is looked at for errors only
handle_reply_message_any(msg, TOutputs, callback) ==
    IF msg.type = "DBUS_MESSAGE_TYPE_ERROR" THEN <<>>
    ELSE LET r == unpack_message(dbus_message_iter_init(msg.args), TOutputs,
                                 DefaultValues(TOutputs), 1)
         IN IF r.result # 0 THEN <<>>
            ELSE IF callback.ptr /\ callback.callback
                 THEN <<[ctx |-> callback.ctx, values |-> r.vals]>>
                 ELSE <<>>

\* handle_reply_message<TOutputs...>(msg, callback): the invocations of
\* callback->callback it makes
handle_reply_message(msg, TOutputs, callback) ==
    IF msg.type = "DBUS_MESSAGE_TYPE_ERROR" THEN <<>>
    ELSE IF msg.type # "DBUS_MESSAGE_TYPE_METHOD_RETURN" THEN <<>>
    ELSE LET r == unpack_message(dbus_message_iter_init(msg.args), TOutputs,
                                 DefaultValues(TOutputs), 1)
         IN IF r.result # 0 THEN <<>>
            ELSE IF callback.ptr /\ callback.callback
                 THEN <<[ctx |-> callback.ctx, values |-> r.vals]>>
                 ELSE <<>>

Messages ==
    {DBusMessage(type, args) :
        type \in MessageTypes,
        args \in UNION {[1..n -> MessageArgs] : n \in 0..MaxArgs}}

InitReply ==
    /\ endpoints = <<>>
    /\ call = <<>>
    /\ probe = NoProbe
    /\ \E msg \in Messages, callback \in Callbacks :
        \E TOutputs \in UNION {[1..n -> CppTypes] : n \in 0..MaxArgs} :
            pure = [fn |-> "handle_reply_message",
                    msg |-> msg,
                    TOutputs |-> TOutputs,
                    callback |-> callback,
                    done |-> FALSE,
                    invocations |-> <<>>]

\* handle_reply_message(msg, callback)
HandleReply ==
    /\ pure.fn = "handle_reply_message"
    /\ ~pure.done
    /\ pure' = [pure EXCEPT
                    !.done = TRUE,
                    !.invocations = handle_reply_message(pure.msg, pure.TOutputs,
                                                         pure.callback)]
    /\ UNCHANGED <<endpoints, call, probe>>

NextReply == HandleReply

SpecReply == InitReply /\ [][NextReply]_vars

----------------------------------------------------------------------------
(* DBusObject::method_call_async next to the thread that dispatches the    *)
(* connection. The calling thread goes from "start" over "sent" (message   *)
(* sent, pending call at hand) and "notify_set" to "returned" or "failed". *)
(* libdbus completes the pending call when the reply is there: it stores   *)
(* the reply, marks the call completed and, outside its lock, calls the    *)
(* notify function if one is installed by then; when that function has     *)
(* returned it drops its own reference. The pending call is freed when the *)
(* caller's reference and libdbus's are gone.                              *)

\* What dbus_message_get_type and dbus_message_iter_init make of a null
\* message
NullMessage == DBusMessage("DBUS_MESSAGE_TYPE_INVALID", <<>>)

ReplyMessages ==
    {DBusMessage("DBUS_MESSAGE_TYPE_METHOD_RETURN", <<>>),
     DBusMessage("DBUS_MESSAGE_TYPE_METHOD_RETURN",
                 <<DBusArg("DBUS_TYPE_UINT32", <<7, 0>>, <<>>, FALSE)>>),
     DBusMessage("DBUS_MESSAGE_TYPE_ERROR",
                 <<DBusArg("DBUS_TYPE_STRING", <<0, 0>>, <<104, 105>>, FALSE)>>)}

InitCallAsync ==
    /\ endpoints = <<>>
    /\ call = <<>>
    /\ probe = NoProbe
    /\ \E reply \in ReplyMessages, callback \in Callbacks :
        \E TOutputs \in {<<>>, <<"unsigned int">>},
           TInputs \in {<<>>, <<"bool">>} :
            \E inputs \in CppTuples(TInputs) :
                pure = [fn |-> "method_call_async",
                        TInputs |-> TInputs,
                        inputs |-> inputs,
                        TOutputs |-> TOutputs,
                        callback |-> callback,
                        reply |-> reply,
                        pc |-> "start",
                        result |-> 0,
                        failure |-> "none",
                        request |-> FALSE,
                        request_unrefs |-> 0,
                        pending |-> FALSE,
                        completed |-> FALSE,
                        held |-> FALSE,
                        function |-> FALSE,
                        handler |-> "idle",
                        unrefs |-> 0,
                        handled |-> <<>>,
                        invocations |-> <<>>]

\* The caller's reference was given up and libdbus's own is gone
PendingFreed == pure.unrefs > 0 /\ pure.handler = "returned"

\* method_call_async up to "Dispatched message call": new_method_call,
\* pack_message, send_with_reply, flush, unref of the outgoing message.
\* A null message leaves through fail1; a failing pack_message, a failing
\* send and a null pending call leave through fail2, which unrefs the
\* message; otherwise the message is unref'd after the flush.
SendCall(msg_ok, oom, send_ok, pending_ok) ==
    /\ pure.fn = "method_call_async"
    /\ pure.pc = "start"
    /\ LET packed == pack_message(dbus_message_iter_init_append(oom),
                                  pure.TInputs, pure.inputs, 1)
           failure == IF ~msg_ok THEN "msg_null"
                      ELSE IF packed.result # 0 THEN "pack"
                      ELSE IF ~send_ok THEN "send"
                      ELSE IF ~pending_ok THEN "pending_null"
                      ELSE "none"
       IN pure' = [pure EXCEPT
                      !.pc = IF failure = "none" THEN "sent" ELSE "failed",
                      !.result = IF failure = "none" THEN 0 ELSE -1,
                      !.failure = failure,
                      !.request = msg_ok,
                      !.request_unrefs = IF failure = "msg_null" THEN 0 ELSE 1,
                      !.pending = (failure = "none")]
    /\ UNCHANGED <<endpoints, call, probe>>

\* Variant: a failing registration leaves through fail2
SetNotify_fail2(ok) ==
    /\ pure.fn = "method_call_async"
    /\ pure.pc = "sent"
    /\ pure' = [pure EXCEPT
                    !.pc = IF ok THEN "notify_set" ELSE "failed",
                    !.result = IF ok THEN 0 ELSE -1,
                    !.failure = IF ok THEN "none" ELSE "notify",
                    !.request_unrefs = IF ok THEN @ ELSE @ + 1,
                    !.function = ok]
    /\ UNCHANGED <<endpoints, call, probe>>

\* dbus_pending_call_set_notify(pending, pending_call_handler, callback,
\* nullptr); FALSE when out of memory, and then the call leaves through
\* fail1
SetNotify(ok) ==
    /\ pure.fn = "method_call_async"
    /\ pure.pc = "sent"
    /\ pure' = [pure EXCEPT
                    !.pc = IF ok THEN "notify_set" ELSE "failed",
                    !.result = IF ok THEN 0 ELSE -1,
                    !.failure = IF ok THEN "none" ELSE "notify",
                    !.function = ok]
    /\ UNCHANGED <<endpoints, call, probe>>

\* "Handle reply now if it already arrived": steal_reply and, with a reply
\* at hand, unref of the pending call and handle_reply_message. On a freed
\* pending call the result of steal_reply is anything: null, or a pointer
\* taken for a message.
StealNow ==
    /\ pure.fn = "method_call_async"
    /\ pure.pc = "notify_set"
    /\ \E msg \in IF PendingFreed THEN {NullMessage, pure.reply}
                  ELSE IF pure.completed /\ pure.held THEN {pure.reply}
                  ELSE {NullMessage} :
        pure' = IF msg # NullMessage
                THEN [pure EXCEPT
                        !.pc = "returned",
                        !.held = FALSE,
                        !.unrefs = @ + 1,
                        !.handled = Append(@, [path |-> "immediate", reply |-> TRUE]),
                        !.invocations = @ \o handle_reply_message(
                                            msg, pure.TOutputs, pure.callback)]
                ELSE [pure EXCEPT !.pc = "returned"]
    /\ UNCHANGED <<endpoints, call, probe>>

\* libdbus: the reply (or the error libdbus makes up on a timeout) is
\* stored in the pending call, which is marked completed; the notify
\* function is due if it is installed at this moment
Complete ==
    /\ pure.fn = "method_call_async"
    /\ pure.pending
    /\ ~pure.completed
    /\ pure' = [pure EXCEPT
                    !.completed = TRUE,
                    !.held = TRUE,
                    !.handler = IF pure.function THEN "due" ELSE "idle"]
    /\ UNCHANGED <<endpoints, call, probe>>

\* pending_call_handler(pending, ctx): steal_reply, unref of the pending
\* call, handle_reply_message, unref of the message
PendingCallHandler ==
    /\ pure.fn = "method_call_async"
    /\ pure.handler = "due"
    /\ LET msg == IF pure.held THEN pure.reply ELSE NullMessage
       IN pure' = [pure EXCEPT
                      !.handler = "ran",
                      !.held = FALSE,
                      !.unrefs = @ + 1,
                      !.handled = Append(@, [path |-> "handler",
                                             reply |-> msg # NullMessage]),
                      !.invocations = @ \o handle_reply_message(
                                          msg, pure.TOutputs, pure.callback)]
    /\ UNCHANGED <<endpoints, call, probe>>

\* libdbus: the notify function has returned; libdbus drops its reference
DispatchReturns ==
    /\ pure.fn = "method_call_async"
    /\ pure.handler = "ran"
    /\ pure' = [pure EXCEPT !.handler = "returned"]
    /\ UNCHANGED <<endpoints, call, probe>>

NextCallAsync ==
    \/ \E msg_ok \in BOOLEAN, oom \in SUBSET {1}, send_ok \in BOOLEAN, pending_ok \in BOOLEAN :
            SendCall(msg_ok, oom, send_ok, pending_ok)
    \/ \E ok \in BOOLEAN : SetNotify(ok)
    \/ StealNow
    \/ Complete
    \/ PendingCallHandler
    \/ DispatchReturns

SpecCallAsync == InitCallAsync /\ [][NextCallAsync]_vars

----------------------------------------------------------------------------
(* Vocabulary of the properties *)

EndpointOf(c) == endpoints[call[c].ep]

Opened(c) == call[c].state # "Idle"

Invoked(c) == call[c].invoked > 0

\* A request the sink rejected or took only in part
WriteFailed(w) == w.status # "OK" \/ w.processed < Len(w.buffer)

\* The bytes a value group stands for on the wire
ExpectedEncoding(enc, values) ==
    IF enc.void THEN <<>>
    ELSE IF enc.types = <<"uint32_t">> THEN write_le(values[1].v)
    ELSE IF values[1] = NULL THEN write_le(0)
    ELSE write_le(values[2].v) \o SubSeq(values[1].mem, 1, values[2].v)

\* Number of values the chain elements before element k take
RECURSIVE ValueOffset(_, _)
ValueOffset(encoders, k) ==
    IF k <= 1 THEN 0 ELSE ValueOffset(encoders, k - 1) + Len(encoders[k - 1].types)

GroupOf(encoders, values, k) ==
    SubSeq(values, ValueOffset(encoders, k) + 1,
           ValueOffset(encoders, k) + Len(encoders[k].types))

RECURSIVE ExpectedResponse(_, _, _)
ExpectedResponse(encoders, values, k) ==
    IF k > Len(encoders) THEN <<>>
    ELSE ExpectedEncoding(encoders[k], GroupOf(encoders, values, k))
            \o ExpectedResponse(encoders, values, k + 1)

RECURSIVE OfferedBytes(_)
OfferedBytes(log) ==
    IF log = <<>> THEN <<>> ELSE Head(log).buffer \o OfferedBytes(Tail(log))

----------------------------------------------------------------------------
(* Properties of the call life cycle *)

\* C1: the native callable is never invoked for a call whose decoder chain
\* has failed or has not yet decoded every input.
C1_NoInvocationUnlessDecoded ==
    \A c \in DOMAIN call :
        (~Opened(c) \/ call[c].decoder.failed \/ ~ChainDone(call[c].decoder))
            => call[c].invoked = 0

\* C1 (case): an object reference that does not resolve has failed the chain
\* of an endpoint, after an earlier argument was decoded.
C1_Witness ==
    \E c \in DOMAIN call :
        /\ call[c].state = "DecodeFailed"
        /\ call[c].decoder.failed
        /\ call[c].decoder.pos <= Len(call[c].decoder.decoders)
        /\ call[c].decoder.decoders[call[c].decoder.pos] = <<"TObj*">>
        /\ Len(call[c].decoder.values) = 1
        /\ call[c].invoked = 0

\* C2: once a request to the sink fails (non-OK status or fewer bytes accepted
\* than requested), no byte of a later request is offered to the sink.
C2_NoOfferAfterFailure ==
    \A c \in DOMAIN call :
        \A i, j \in 1..Len(call[c].sink.log) :
            (i < j /\ WriteFailed(call[c].sink.log[i]))
                => Len(call[c].sink.log[j].buffer) = 0

\* C3: a call whose serialization has finished either had every value of its
\* output list fully accepted by the sink or ended in EncodeFailed with the
\* error reported; a call that is Done wrote its whole response.
C3_EncodingTotal ==
    \A c \in DOMAIN call :
        /\ call[c].state = "Done" =>
            /\ \A i \in 1..Len(call[c].sink.log) : ~WriteFailed(call[c].sink.log[i])
            /\ OfferedBytes(call[c].sink.log)
                    = ExpectedResponse(TOutputEncoders(EndpointOf(c).metadata_),
                                       call[c].out_vals, 1)
        /\ call[c].state = "EncodeFailed" =>
            \E i \in 1..Len(call[c].sink.log) : WriteFailed(call[c].sink.log[i])

----------------------------------------------------------------------------
(* Properties of the argument merge *)

\* Number of tags of a kind among the first i tags
CountUpTo(modes, mode, i) == Cardinality({j \in 1..i : modes[j] = mode})

\* The elements of a tuple that are of a kind, in order
OfKind(t, kind) == SelectSeq(t, LAMBDA x : x.kind = kind)

\* C4: for a tag sequence with k Input and m Output tags, the merge of k
\* inputs and m output references has length k + m; its i-th element is the
\* next unconsumed input where the i-th tag is Input and the next unconsumed
\* output reference where it is Output; each source list is consumed in order,
\* every element exactly once.
C4_MergeInterleaves ==
    pure.done =>
        /\ Len(pure.result) = Len(pure.in_refs) + Len(pure.out_refs)
        /\ Len(pure.result) = Len(pure.arg_modes)
        /\ \A i \in 1..Len(pure.result) :
                pure.result[i] =
                    IF pure.arg_modes[i] = arg_mode_input
                    THEN pure.in_refs[CountUpTo(pure.arg_modes, arg_mode_input, i)]
                    ELSE pure.out_refs[CountUpTo(pure.arg_modes, arg_mode_output, i)]
        /\ OfKind(pure.result, "val") = pure.in_refs
        /\ OfKind(pure.result, "ref") = pure.out_refs

\* C4 (case): a merge was applied to a tag sequence that interleaves both
\* kinds, with an output ahead of an input and two outputs to tell apart.
C4_Witness ==
    /\ pure.done
    /\ Len(pure.out_refs) >= 2
    /\ Len(pure.in_refs) >= 1
    /\ pure.arg_modes[1] = arg_mode_output
    /\ pure.arg_modes[2] = arg_mode_input
    /\ pure.result[1] = Ref(1)

\* C5: for every registered signature the argument list handed to the native
\* callable has the callable's arity, follows the declared parameter order
\* (inputs and output storage interleaved by the declared modes) and holds no
\* return-value slot; return-value slots are the trailing outputs and are
\* filled from what the callable returns.
C5_CallShape ==
    \A c \in DOMAIN call :
        Invoked(c) =>
            LET ep == EndpointOf(c)
                modes == ep.metadata_.TArgModes
                nstore == NImplOutputs(ep) - NImplResults(ep)
            IN /\ Len(call[c].args) = NImplArgs(ep)
               /\ \A i \in 1..Len(call[c].args) :
                    IF modes[i] = arg_mode_input
                    THEN call[c].args[i]
                            = call[c].decoder.values[CountUpTo(modes, arg_mode_input, i)]
                    ELSE /\ call[c].args[i] = Ref(CountUpTo(modes, arg_mode_output, i))
                         /\ CountUpTo(modes, arg_mode_output, i) <= nstore
               /\ \A i \in (NImplArgs(ep) + 1)..Len(modes) : modes[i] = arg_mode_output
               /\ Len(call[c].stored) = nstore
               /\ Len(call[c].out_vals) = NImplOutputs(ep)
               /\ tuple_skip(nstore, call[c].out_vals) = call[c].ret
               /\ Len(call[c].ret) = NImplResults(ep)

\* C5 (case): a callable with a return value was invoked with an input and a
\* reference to output storage.
C5_Witness ==
    \E c \in DOMAIN call :
        /\ Invoked(c)
        /\ NImplResults(EndpointOf(c)) = 1
        /\ OfKind(call[c].args, "val") # <<>>
        /\ OfKind(call[c].args, "ref") # <<>>
        /\ call[c].ret # <<Val(0)>>

----------------------------------------------------------------------------
(* Properties of the response and of the handlers *)

\* The requests the sink logged for chain element k, joined
RECURSIVE OfferedFor(_, _)
OfferedFor(log, k) ==
    IF log = <<>> THEN <<>>
    ELSE (IF Head(log).elem = k THEN Head(log).buffer ELSE <<>>)
            \o OfferedFor(Tail(log), k)

IsPrefix(a, b) == Len(a) <= Len(b) /\ SubSeq(b, 1, Len(a)) = a

C7_NoInvocationAfterTeardown ==
    \A c \in DOMAIN call :
        (call[c].state = "Discarded" /\ ~ChainDone(call[c].decoder))
            => call[c].invoked = 0

\* C7 (case): a context was discarded in the middle of an argument, with one
\* argument already decoded.
C7_Witness ==
    \E c \in DOMAIN call :
        /\ call[c].state = "Discarded"
        /\ ~call[c].decoder.failed
        /\ Len(call[c].decoder.values) = 1
        /\ call[c].decoder.buf # <<>>
        /\ call[c].invoked = 0

\* C8: the native callable runs only inside decoder_finished (the step that
\* takes a call from InputsComplete to Done), once per decoder_finished call;
\* opening a connection and the get_hash and get_as_json queries never run it.
C8_InvokedOnlyByDecoderFinished ==
    [][\A c \in DOMAIN call :
        /\ call'[c].invoked # call[c].invoked
            => /\ call[c].state = "InputsComplete"
               /\ call'[c].state = "Done"
               /\ call'[c].invoked = call[c].invoked + 1
        /\ (call[c].state = "InputsComplete" /\ call'[c].state = "Done")
            => call'[c].invoked = call[c].invoked + 1
        /\ (call[c].state = "Idle" \/ probe' # probe)
            => call'[c].invoked = call[c].invoked]_vars

\* C8 (case): decoder_finished has run once and a query followed it.
C8_Witness ==
    \E c \in DOMAIN call :
        /\ call[c].state = "Done"
        /\ call[c].invoked = 1
        /\ probe.op = "get_as_json"

\* C9: within a call every input is decoded before the callable is invoked,
\* nothing is offered to the sink before the callable has returned, and
\* nothing of the call follows a decode failure or an encode failure.
C9_DecodeBeforeInvoke ==
    \A c \in DOMAIN call :
        \A i \in 1..Len(call[c].history) :
            call[c].history[i].e = "invoke" =>
                /\ Cardinality({j \in 1..(i - 1) : call[c].history[j].e = "decoded"})
                        = Len(call[c].decoder.decoders)
                /\ \A j \in 1..Len(call[c].history) :
                        call[c].history[j].e = "decoded" => j < i

C9_ReturnBeforeWrite ==
    \A c \in DOMAIN call :
        \A i \in 1..Len(call[c].history) :
            call[c].history[i].e = "write" =>
                \E j \in 1..(i - 1) : call[c].history[j].e = "return"

C9_DecodeFailedTerminal ==
    \A c \in DOMAIN call :
        \A i, j \in 1..Len(call[c].history) :
            (i < j /\ call[c].history[i].e = "decode_failed")
                => call[c].history[j].e = "teardown"

C9_EncodeFailedTerminal ==
    \A c \in DOMAIN call :
        \A i \in 1..Len(call[c].sink.log) :
            WriteFailed(call[c].sink.log[i]) => i = Len(call[c].sink.log)

C9_LifeCycle ==
    /\ C9_DecodeBeforeInvoke
    /\ C9_ReturnBeforeWrite
    /\ C9_DecodeFailedTerminal
    /\ C9_EncodeFailedTerminal

\* C10: any two distinct registered endpoints have different identifiers.
C10_HashUnique ==
    \A i, j \in DOMAIN endpoints :
        i # j => get_hash(endpoints[i]) # get_hash(endpoints[j])

----------------------------------------------------------------------------
(* Properties of the JSON descriptor *)

\* The Input slots of a declaration, in declared order
InputSlots(decl) == SelectSeq(decl, LAMBDA item : item.proto.kind = "in")

CodecOf(item) == IF item.types = <<"uint32_t">> THEN "uint32" ELSE "TObj"

\* The entries of slots i.. of a list, a comma ahead of every entry but the first
RECURSIVE EntriesFrom(_, _)
EntriesFrom(slots, i) ==
    IF i > Len(slots) THEN ""
    ELSE (IF i > 1 THEN "," ELSE "")
            \o "{\"name\":\"" \o slots[i].proto.name
            \o "\",\"codec\":\"" \o CodecOf(slots[i]) \o "\"}"
            \o EntriesFrom(slots, i + 1)

RECURSIVE EntriesLength(_, _)
EntriesLength(slots, i) ==
    IF i > Len(slots) THEN 0
    ELSE (IF i > 1 THEN 1 ELSE 0)
            + 22 + Len(slots[i].proto.name) + Len(CodecOf(slots[i]))
            + EntriesLength(slots, i + 1)

\* C11: the descriptor is {"name":"<function_name>","in":[...]} with one
\* {"name":"<arg>","codec":"<codec>"} entry per Input slot in declared order,
\* joined by single commas, nothing added, no entry for an Output slot; the
\* move_to example yields its literal text and no inputs yield an empty array.
C11_JsonDescriptor ==
    (pure.fn = "get_as_json" /\ pure.done) =>
        LET slots == InputSlots(pure.decl)
        IN /\ pure.result = "{\"name\":\"" \o pure.function_name \o "\",\"in\":["
                                \o EntriesFrom(slots, 1) \o "]}"
           /\ Len(pure.result)
                = 19 + Len(pure.function_name) + EntriesLength(slots, 1)
           /\ slots = <<>>
                => pure.result = "{\"name\":\"" \o pure.function_name \o "\",\"in\":[]}"
           /\ (pure.function_name = "move_to"
                    /\ [i \in 1..Len(pure.decl) |-> pure.decl[i].proto.name] = <<"x", "y">>)
                => pure.result = "{\"name\":\"move_to\",\"in\":[{\"name\":\"x\",\"codec\":\"uint32\"},{\"name\":\"y\",\"codec\":\"uint32\"}]}"

\* C11 (case): the descriptor of a declaration with an output item ahead of
\* an input has been assembled.
C11_Witness ==
    /\ pure.fn = "get_as_json"
    /\ pure.done
    /\ pure.function_name = "move_to"
    /\ Len(pure.decl) = 2
    /\ pure.decl[1].proto.kind = "out"
    /\ pure.decl[2].proto.name = "y"
    /\ pure.result = "{\"name\":\"move_to\",\"in\":[{\"name\":\"y\",\"codec\":\"uint32\"}]}"

\* C12: every get_as_json call, whatever open_connection, decoder_finished,
\* get_hash and get_as_json calls came before it, returns true and delivers
\* the text and the length its first call delivered (the descriptor built
\* with the metadata); a null pointer withholds that one result only.
C12_DescriptorCached ==
    probe.op = "get_as_json" =>
        /\ probe.ret = TRUE
        /\ probe.asked_output <=> probe.output # NONE
        /\ probe.asked_length <=> probe.length # -1
        /\ probe.output # NONE => probe.output = pure.first_output
        /\ probe.length # -1 => probe.length = pure.first_length
        /\ probe.output # NONE =>
                probe.output
                    = FunctionJSONAssembler(endpoints[probe.ep].metadata_.function_name,
                                            endpoints[probe.ep].metadata_.input_metadata)
        /\ (pure.first_output # NONE /\ pure.first_length # -1)
                => Len(pure.first_output) = pure.first_length

\* C12 (case): after a call has run to its end, get_as_json is asked for the
\* length alone, the text having been delivered by an earlier call.
C12_Witness ==
    /\ probe.op = "get_as_json"
    /\ ~probe.asked_output
    /\ probe.asked_length
    /\ probe.length = pure.first_length
    /\ pure.first_output # NONE
    /\ \E c \in DOMAIN call : call[c].state = "Done" /\ call[c].invoked = 1

----------------------------------------------------------------------------
(* Properties of concurrent calls *)

RECURSIVE SumProcessed(_)
SumProcessed(log) ==
    IF log = <<>> THEN 0 ELSE Head(log).processed + SumProcessed(Tail(log))

\* The decoder chain of call c had it been fed, alone and in one piece, the
\* bytes of its own stream that have been taken so far
AloneDecoder(c) ==
    chain_process_bytes(
        NewChain(TInputDecoders(EndpointOf(c).metadata_)),
        tuple_take(Len(pure.sent[c]) - Len(call[c].wire), pure.sent[c]))

\* The pipe of call c as it was handed to decoder_finished
PipeGiven(c) ==
    NewSink(call[c].sink.space + SumProcessed(call[c].sink.log), call[c].sink.onfull)

\* C13: with calls A and B in flight on one endpoint under any interleaving
\* of their bytes, each call's decoder state and decoded values are those of
\* its own bytes alone, its invocation receives its own decoded inputs merged
\* with its own output storage, and its pipe holds the encoding of its own
\* outputs; a call that has not started or has failed leaves the other as is.
C13_CallsIndependent ==
    \A c \in DOMAIN call :
        IF call[c].state = "Idle" THEN call[c] = IdleCall
        ELSE LET ep == EndpointOf(c)
                 alone == AloneDecoder(c)
                 refs == [j \in 1..Len(impl_out_arg_vals_t(ep)) |-> Ref(j)]
             IN /\ call[c].wire
                        = tuple_skip(Len(pure.sent[c]) - Len(call[c].wire), pure.sent[c])
                /\ call[c].decoder.values = alone.values
                /\ call[c].decoder.buf = alone.buf
                /\ call[c].decoder.pos = alone.pos
                /\ call[c].state # "DecodeFailed" => call[c].decoder.failed = alone.failed
                /\ call[c].state # "Done" => (call[c].invoked = 0 /\ call[c].sink.log = <<>>)
                /\ call[c].state = "Done" =>
                    /\ call[c].invoked = 1
                    /\ call[c].args
                            = merge_to_io_tuple(alone.values, refs, impl_arg_modes_t(ep))
                    /\ call[c].out_vals = call[c].stored \o call[c].ret
                    /\ call[c].sink
                            = EncoderChain_serialize(TOutputEncoders(ep.metadata_),
                                                     PipeGiven(c), call[c].out_vals, 1)

\* C13 (case): call B has run to its end on bytes different from those of
\* call A, which is still in the middle of its argument.
C13_Witness ==
    /\ DOMAIN call = ConcurrentIds
    /\ call["B"].state = "Done"
    /\ call["A"].state = "AwaitingInput"
    /\ call["A"].decoder.buf # <<>>
    /\ pure.sent["A"] # pure.sent["B"]
    /\ call["B"].decoder.values # <<>>
    /\ call["B"].sink.log # <<>>

----------------------------------------------------------------------------
(* Properties of the endpoint object *)

\* C14: no step of open_connection, decoder_finished, get_hash or get_as_json
\* changes an endpoint: its callable, its metadata and its cached JSON stay
\* as registered; a step of a call writes that call's context only, and a
\* query writes only the results it hands back.
C14_EndpointImmutable ==
    [][/\ endpoints' = endpoints
       /\ \A e \in DOMAIN endpoints :
            /\ endpoints'[e].func_ = endpoints[e].func_
            /\ endpoints'[e].metadata_ = endpoints[e].metadata_
            /\ endpoints'[e].metadata_.json = endpoints[e].metadata_.json
       /\ call' # call => probe' = probe
       /\ probe' # probe => call' = call
       /\ \A c \in DOMAIN call :
            call'[c].state = "Idle" => call'[c] = call[c]]_vars

\* C14 (case): a call has been opened and finished on the endpoint, and both
\* get_as_json and get_hash have been asked, get_hash last.
C14_Witness ==
    /\ probe.op = "get_hash"
    /\ pure.fn = "describe"
    /\ pure.first_output # NONE
    /\ \E c \in DOMAIN call :
        /\ call[c].state = "Done"
        /\ call[c].invoked = 1
        /\ call[c].sink.log # <<>>
        /\ endpoints[call[c].ep].metadata_.json = pure.first_output

----------------------------------------------------------------------------
(* Properties of the decoder chain *)

\* The types of the declared inputs, in declared order
DeclaredInputTypes(decl) ==
    tuple_cat_all([i \in 1..Len(InputSlots(decl)) |-> InputSlots(decl)[i].types])

EncodedSize(type) == IF type = "uint32_t" THEN 4 ELSE ObjectRefSize

\* Encoded size of the first k of a list of types
RECURSIVE SizeOfFirst(_, _)
SizeOfFirst(types, k) ==
    IF k <= 0 THEN 0 ELSE SizeOfFirst(types, k - 1) + EncodedSize(types[k])

\* The bytes of a stream the chain has taken
Taken == tuple_take(Len(pure.stream) - Len(pure.rest), pure.stream)

\* C15: a chain that has completed has consumed as many bytes as the encoded
\* sizes of the declared inputs add up to, these are the first bytes of the
\* stream, and every byte after them is still unconsumed.
C15_ExactConsumption ==
    (pure.fn = "chain" /\ ChainDone(pure.chain)) =>
        LET types == DeclaredInputTypes(pure.decl)
            need == SizeOfFirst(types, Len(types))
        IN /\ pure.chain.consumed = need
           /\ Len(pure.chain.values) = Len(types)
           /\ pure.rest = tuple_skip(need, pure.stream)
           /\ Len(Taken) = need

\* C15 (case): a chain of two inputs has completed on a stream that goes on
\* after the arguments.
C15_Witness ==
    /\ pure.fn = "chain"
    /\ ChainDone(pure.chain)
    /\ Len(pure.chain.decoders) = 2
    /\ pure.chain.decoders[1] # pure.chain.decoders[2]
    /\ pure.rest = <<170>>
    /\ pure.chain.consumed = 4 + ObjectRefSize

\* C16: however the stream is split into turns, the chain is in the state
\* one turn with the bytes taken so far puts it in; once it has completed or
\* failed, its values and its outcome are those of the whole stream delivered
\* in one turn (a stream that ends early fails either way).
C16_ChunkingEquivalence ==
    pure.fn = "chain" =>
        LET fresh == NewChain(pure.chain.decoders)
            sofar == chain_process_bytes(fresh, Taken)
            whole == chain_process_bytes(fresh, pure.stream)
        IN /\ pure.chain.values = sofar.values
           /\ pure.chain.pos = sofar.pos
           /\ pure.chain.buf = sofar.buf
           /\ pure.chain.consumed = sofar.consumed
           /\ pure.chain.failed = (sofar.failed \/ pure.ended)
           /\ pure.ended => ~ChainDone(sofar)
           /\ (ChainDone(pure.chain) \/ (pure.chain.failed /\ ~pure.ended))
                => /\ pure.chain.values = whole.values
                   /\ pure.chain.failed = whole.failed
                   /\ pure.chain.consumed = whole.consumed
                   /\ ChainDone(pure.chain) = ChainDone(whole)

\* C16 (case): a chain of two numbers has completed in five turns, turns
\* that ended in the middle of an argument among them.
C16_Witness ==
    /\ pure.fn = "chain"
    /\ ChainDone(pure.chain)
    /\ pure.turns = 5
    /\ pure.chain.consumed = 8
    /\ pure.chain.values = <<Val(1), Val(256)>>

----------------------------------------------------------------------------
(* Properties of decode failures *)

\* Offset in the stream of element i of the chain
OffsetOf(decoders, i) ==
    SizeOfFirst([k \in 1..Len(decoders) |-> decoders[k][1]], i - 1)

\* Element i of the chain is an object reference whose token, as it stands
\* in the stream, does not resolve
Mismatch(decoders, stream, i) ==
    /\ decoders[i] = <<"TObj*">>
    /\ OffsetOf(decoders, i) + ObjectRefSize <= Len(stream)
    /\ read_le(SubSeq(stream, OffsetOf(decoders, i) + 1,
                       OffsetOf(decoders, i) + ObjectRefSize)) \notin ObjectTable

\* C18: once the bytes of an element that does not decode have been taken,
\* the chain has failed at that element: the elements before it hold their
\* values, no value exists for it or any later element, and no byte after it
\* has been consumed; a chain fails only at a mismatch or at an early end of
\* the stream, and a failed chain is never complete.
C18_FailureStopsChain ==
    pure.fn = "chain" =>
        LET ch == pure.chain
        IN /\ \A i \in 1..Len(ch.decoders) :
                (/\ Mismatch(ch.decoders, pure.stream, i)
                 /\ \A j \in 1..(i - 1) : ~Mismatch(ch.decoders, pure.stream, j)
                 /\ Len(Taken) >= OffsetOf(ch.decoders, i) + ObjectRefSize)
                    => /\ ch.failed
                       /\ ch.pos = i
                       /\ Len(ch.values) = i - 1
                       /\ ch.consumed = OffsetOf(ch.decoders, i) + ObjectRefSize
                       /\ pure.rest = tuple_skip(ch.consumed, pure.stream)
           /\ ch.failed =>
                /\ ~ChainDone(ch)
                /\ ch.pos <= Len(ch.decoders)
                /\ Len(ch.values) = ch.pos - 1
                /\ pure.ended \/ Mismatch(ch.decoders, pure.stream, ch.pos)

\* C18 (case): the first of two elements did not decode; the bytes of the
\* second are still in the stream.
C18_Witness ==
    /\ pure.fn = "chain"
    /\ pure.chain.failed
    /\ ~pure.ended
    /\ Len(pure.chain.decoders) = 2
    /\ pure.chain.pos = 1
    /\ pure.chain.values = <<>>
    /\ Len(pure.rest) >= 4

----------------------------------------------------------------------------
(* Properties of chain completion *)

\* C17: completion is signalled (the call is InputsComplete) only with every
\* element of the chain decoded and no byte of an element pending; as long as
\* the chain has not completed, decoder_finished has not run for the call and
\* the callable has been handed nothing: no argument list, no invocation, no
\* response; what an invocation is handed are the values of the whole chain.
C17_CompletionOnlyWhenDecoded ==
    \A c \in DOMAIN call :
        /\ call[c].state \in {"InputsComplete", "Done"} =>
            /\ ChainDone(call[c].decoder)
            /\ Len(call[c].decoder.values) = Len(call[c].decoder.decoders)
            /\ call[c].decoder.buf = <<>>
        /\ (Opened(c) /\ ~ChainDone(call[c].decoder)) =>
            /\ call[c].state \in {"AwaitingInput", "DecodeFailed", "Discarded"}
            /\ call[c].invoked = 0
            /\ call[c].args = <<>>
            /\ call[c].out_vals = <<>>
            /\ call[c].sink.log = <<>>
            /\ \A i \in 1..Len(call[c].history) :
                    call[c].history[i].e \notin {"invoke", "return", "write"}
        /\ Invoked(c) =>
            /\ OfKind(call[c].args, "val") = get_inputs(call[c].decoder)
            /\ Len(OfKind(call[c].args, "val")) = Len(call[c].decoder.decoders)

\* C17 (case): the first of two elements is decoded and part of the second
\* has arrived; the chain has not completed.
C17_Witness ==
    \E c \in DOMAIN call :
        /\ call[c].state = "AwaitingInput"
        /\ Len(call[c].decoder.decoders) = 2
        /\ Len(call[c].decoder.values) = 1
        /\ call[c].decoder.buf # <<>>
        /\ call[c].invoked = 0

----------------------------------------------------------------------------
(* Properties of registration *)

\* C19: every endpoint in the registry accounts for the whole native
\* signature: its input and output values are as many as the callable's
\* parameters and return values together, every input and every output that
\* is not a return value is one of the parameters, and the outputs left over
\* are exactly the return values; any other declaration was rejected when it
\* was built.
C19_ArityChecked ==
    \A e \in DOMAIN endpoints :
        LET ep == endpoints[e]
            modes == tuple_take(NImplArgs(ep), ep.metadata_.TArgModes)
        IN /\ NImplInputs(ep) + NImplOutputs(ep) = NImplArgs(ep) + NImplResults(ep)
           /\ NImplResults(ep) <= NImplOutputs(ep)
           /\ Len(modes) = NImplArgs(ep)
           /\ Count(modes, arg_mode_input) = NImplInputs(ep)
           /\ Count(modes, arg_mode_output) = NImplOutputs(ep) - NImplResults(ep)

\* C19 (case): an endpoint is registered and a declaration has just been
\* rejected.
C19_Witness ==
    /\ probe.op = "build_error"
    /\ Len(endpoints) >= 1
    /\ NImplArgs(endpoints[1]) + NImplResults(endpoints[1]) >= 1

----------------------------------------------------------------------------
(* Properties of the endpoint without inputs and outputs *)

ZeroArity(ep) ==
    /\ ep.metadata_.input_metadata = <<>>
    /\ ep.metadata_.output_metadata = <<>>
    /\ NImplArgs(ep) = 0
    /\ NImplResults(ep) = 0

\* C20: a call on an endpoint with no inputs and no outputs has its chain
\* complete as soon as it is opened, with no byte consumed and never waiting
\* for input; its callable is invoked with an empty argument list, and
\* nothing is offered to the sink: no request, no byte.
C20_ZeroArity ==
    \A c \in DOMAIN call :
        (Opened(c) /\ ZeroArity(EndpointOf(c))) =>
            /\ call[c].state \in {"InputsComplete", "Done"}
            /\ ChainDone(call[c].decoder)
            /\ call[c].decoder.consumed = 0
            /\ call[c].decoder.values = <<>>
            /\ call[c].state = "Done" =>
                /\ call[c].invoked = 1
                /\ call[c].args = <<>>
                /\ call[c].out_vals = <<>>
                /\ call[c].sink.log = <<>>
                /\ OfferedBytes(call[c].sink.log) = <<>>

\* C20 (case): a call on the endpoint without inputs and outputs is done,
\* the byte that followed on its stream untouched.
C20_Witness ==
    \E c \in DOMAIN call :
        /\ Opened(c)
        /\ ZeroArity(EndpointOf(c))
        /\ call[c].state = "Done"
        /\ call[c].invoked = 1
        /\ call[c].wire = <<170>>
        /\ call[c].sink.space > 0

----------------------------------------------------------------------------
(* Properties of the encoders *)

\* The requests the sink logged for chain element k, in order
RequestsFor(log, k) == SelectSeq(log, LAMBDA w : w.elem = k)

IsStringEncoder(enc) == ~enc.void /\ enc.types = <<"const char*", "size_t">>

\* The four bytes of a length below 256, least significant first
SmallLE(n) == <<n, 0, 0, 0>>

\* C21: a string encoder handed a null string makes one request, the four
\* bytes of a zero length, whatever the length argument; handed a string and
\* a length L it first requests the four little-endian bytes of L and, that
\* request accepted, requests the L bytes of the string in order and nothing
\* else, so that 4 + L bytes are written when the sink takes them.
C21_StringEncoding ==
    (pure.fn = "serialize" /\ pure.done) =>
        \A k \in 1..Len(pure.encoders) :
            IsStringEncoder(pure.encoders[k]) =>
                LET group == GroupOf(pure.encoders, pure.values, k)
                    str == group[1]
                    L == group[2].v
                    reqs == RequestsFor(pure.sink.log, k)
                IN IF str = NULL
                   THEN /\ Len(reqs) = 1
                        /\ reqs[1].buffer = <<0, 0, 0, 0>>
                   ELSE /\ Len(reqs) >= 1
                        /\ reqs[1].buffer = SmallLE(L)
                        /\ ~WriteFailed(reqs[1]) =>
                            /\ Len(reqs) = 2
                            /\ Len(reqs[2].buffer) = L
                            /\ \A j \in 1..L : reqs[2].buffer[j] = str.mem[j]
                            /\ ~WriteFailed(reqs[2]) =>
                                    reqs[1].processed + reqs[2].processed = 4 + L

\* C21 (case): a string of two bytes has been written whole to a sink with
\* room for it.
C21_Witness ==
    /\ pure.fn = "serialize"
    /\ pure.done
    /\ Len(pure.encoders) = 1
    /\ IsStringEncoder(pure.encoders[1])
    /\ pure.values = <<Str(<<104, 105>>), Val(2)>>
    /\ OfferedBytes(pure.sink.log) = <<2, 0, 0, 0, 104, 105>>
    /\ pure.output.space - pure.sink.space = 6

\* C24: when the sink answers the length prefix of a string with a status
\* other than OK, or takes fewer than its four bytes, the encoder makes no
\* second request: no byte of the string is offered.
C24_PrefixFailureStopsString ==
    (pure.fn = "serialize" /\ pure.done) =>
        \A k \in 1..Len(pure.encoders) :
            IsStringEncoder(pure.encoders[k]) =>
                LET reqs == RequestsFor(pure.sink.log, k)
                IN /\ Len(reqs) >= 1
                   /\ Len(reqs[1].buffer) = 4
                   /\ (reqs[1].status # "OK" \/ reqs[1].processed # 4) =>
                          Len(reqs) = 1

\* C24 (case): a sink with room for two bytes took half of the prefix of a
\* two-byte string and reported OK; the other case is a sink that reported
\* an error.
C24_Witness ==
    /\ pure.fn = "serialize"
    /\ pure.done
    /\ pure.encoders # <<>>
    /\ IsStringEncoder(pure.encoders[1])
    /\ pure.values[1] # NULL
    /\ pure.values[2] = Val(2)
    /\ pure.sink.log[1].status = "OK"
    /\ pure.sink.log[1].processed = 2
    /\ RequestsFor(pure.sink.log, 1) = <<pure.sink.log[1]>>

\* C23: a uint32 is written as one request of exactly four bytes, the least
\* significant first and nothing before them, and the decoder given those
\* four bytes returns the value that was encoded, for 0, for 2^32 - 1 and
\* for the values between.
C23_UInt32RoundTrip ==
    (pure.fn = "uint32" /\ pure.stage # "fresh") =>
        LET buf == pure.sink.log[1].buffer
        IN /\ Len(pure.sink.log) = 1
           /\ Len(buf) = 4
           /\ \A j \in 1..4 : buf[j] \in 0..255
           /\ buf[1] + 256 * buf[2] = pure.value[1]
           /\ buf[3] + 256 * buf[4] = pure.value[2]
           /\ pure.value[2] < 32768 =>
                  buf = write_le(pure.value[1] + 65536 * pure.value[2])
           /\ pure.stage = "decoded" => pure.decoded = pure.value

\* C23 (case): the value 2^32 - 1 has been encoded and decoded again.
C23_Witness ==
    /\ pure.fn = "uint32"
    /\ pure.stage = "decoded"
    /\ pure.value = <<65535, 65535>>
    /\ pure.sink.log[1].buffer = <<255, 255, 255, 255>>
    /\ pure.decoded = <<65535, 65535>>

\* C27: for a non-null string and a length L of the size_t range, the value
\* of the 32-bit prefix is the number of bytes the encoder then asks the
\* sink to take.
C27_PrefixMatchesPayload ==
    (pure.fn = "string" /\ pure.stage = "encoded" /\ pure.present
        /\ pure.payload) =>
        LET prefix == read_le_limbs(pure.sink.log[1].buffer)
        IN <<prefix[1], prefix[2], 0, 0>> = pure.asked

\* C25: the k-th encoder of a chain is handed the values at the offsets
\* from the sum of the arities of the encoders before it, as many as its
\* own arity: what it asks the sink to take is the encoding of those values
\* (the beginning of it when the sink refused a request). The groups cover
\* the tuple, each value in one group. An encoder of a discarded output
\* makes no request, and the encoders after it still encode their own
\* values.
C25_EncoderAlignment ==
    (pure.fn = "serialize" /\ pure.done) =>
        /\ ValueOffset(pure.encoders, Len(pure.encoders) + 1) = Len(pure.values)
        /\ \A j \in 1..Len(pure.sink.log) :
                /\ pure.sink.log[j].elem \in 1..Len(pure.encoders)
                /\ j > 1 => pure.sink.log[j - 1].elem <= pure.sink.log[j].elem
        /\ \A k \in 1..Len(pure.encoders) :
                LET enc == pure.encoders[k]
                    reqs == RequestsFor(pure.sink.log, k)
                    offered == OfferedBytes(reqs)
                    expected == ExpectedEncoding(enc, GroupOf(pure.encoders,
                                                             pure.values, k))
                IN IF enc.void
                   THEN reqs = <<>>
                   ELSE /\ reqs # <<>>
                        /\ Len(offered) <= Len(expected)
                        /\ offered = SubSeq(expected, 1, Len(offered))
                        /\ (\A j \in 1..Len(reqs) : ~WriteFailed(reqs[j])) =>
                               offered = expected

\* C25 (case): a discarded uint32 output stands ahead of a kept one; the
\* sink was asked for the second value only.
C25_Witness ==
    /\ pure.fn = "serialize"
    /\ pure.done
    /\ Len(pure.encoders) = 2
    /\ pure.encoders[1].void
    /\ ~pure.encoders[2].void
    /\ pure.values = <<Val(0), Val(258)>>
    /\ Len(pure.sink.log) = 1
    /\ pure.sink.log[1].elem = 2
    /\ pure.sink.log[1].buffer = <<2, 1, 0, 0>>

----------------------------------------------------------------------------
(* Properties of the metadata builder *)

\* Number of free types the first n items took
RECURSIVE TakenBy(_, _)
TakenBy(items, n) ==
    IF n = 0 THEN 0 ELSE TakenBy(items, n - 1) + items[n].nparams

\* The item whose parameters include position p of the free types
OwnerOf(items, p) ==
    CHOOSE n \in 1..Len(items) : TakenBy(items, n - 1) < p /\ p <= TakenBy(items, n)

\* The positions in items of the items of one kind, in order
RECURSIVE PositionsOfKind(_, _, _)
PositionsOfKind(items, kind, n) ==
    IF n > Len(items) THEN <<>>
    ELSE (IF items[n].kind = kind THEN <<n>> ELSE <<>>)
            \o PositionsOfKind(items, kind, n + 1)

\* C26: after any sequence of with_item calls the recorded modes and the
\* remaining free types add up to the initial free types; the remaining
\* ones are the initial ones less those taken from the front; position p of
\* the modes has the kind of the item that took parameter p, so the modes
\* follow the order of the calls; each item holds the types it took; the
\* function name is the initial one, and the items recorded before the last
\* call are still there, unchanged and in place.
C26_BuilderInvariant ==
    pure.fn = "builder" =>
        LET md == pure.md
            items == pure.items
            taken == TakenBy(items, Len(items))
            ins == PositionsOfKind(items, "in", 1)
            outs == PositionsOfKind(items, "out", 1)
        IN /\ Len(md.TArgModes) + Len(md.TFreeArgs) = Len(pure.free)
           /\ Len(md.TArgModes) = taken
           /\ md.TFreeArgs = SubSeq(pure.free, taken + 1, Len(pure.free))
           /\ \A p \in 1..taken :
                  md.TArgModes[p] =
                     IF items[OwnerOf(items, p)].kind = "in"
                     THEN arg_mode_input ELSE arg_mode_output
           /\ md.function_name = pure.function_name
           /\ Len(md.input_metadata) = Len(ins)
           /\ Len(md.output_metadata) = Len(outs)
           /\ \A j \in 1..Len(ins) :
                  /\ md.input_metadata[j].name = items[ins[j]].name
                  /\ md.input_metadata[j].tuple_type =
                        SubSeq(pure.free, TakenBy(items, ins[j] - 1) + 1,
                               TakenBy(items, ins[j]))
           /\ \A j \in 1..Len(outs) :
                  /\ md.output_metadata[j].name = items[outs[j]].name
                  /\ md.output_metadata[j].encoder_type.void = items[outs[j]].discard
                  /\ md.output_metadata[j].tuple_type =
                        SubSeq(pure.free, TakenBy(items, outs[j] - 1) + 1,
                               TakenBy(items, outs[j]))
           /\ IsPrefix(pure.before.input_metadata, md.input_metadata)
           /\ IsPrefix(pure.before.output_metadata, md.output_metadata)
           /\ IsPrefix(pure.before.TArgModes, md.TArgModes)
           /\ pure.before.function_name = md.function_name

\* C26 (case): an output item of two parameters was added after an input
\* item of one, out of four free types; one free type remains.
C26_Witness ==
    /\ pure.fn = "builder"
    /\ Len(pure.free) = 4
    /\ Len(pure.items) = 2
    /\ pure.items[1].kind = "in" /\ pure.items[1].nparams = 1
    /\ pure.items[2].kind = "out" /\ pure.items[2].nparams = 2
    /\ pure.md.TArgModes = <<arg_mode_input, arg_mode_output, arg_mode_output>>
    /\ pure.md.TFreeArgs = <<pure.free[4]>>
    /\ Len(pure.before.output_metadata) = 0
    /\ Len(pure.md.output_metadata) = 1

----------------------------------------------------------------------------
(* Properties of the D-Bus messages *)

\* Argument i of the message is there and has the type expected at i
TypeMatches(args, types, i) ==
    i <= Len(args) /\ args[i].type = type_id(types[i])

\* Argument i of the message is one its pop accepts
PopsWell(args, i) ==
    IF args[i].type = "DBUS_TYPE_BOOLEAN" THEN args[i].v \in {<<0, 0>>, <<1, 0>>}
    ELSE IF args[i].type = "DBUS_TYPE_STRING" THEN ~args[i].null
    ELSE TRUE

\* The message holds the expected arguments and no other
WellFormed(args, types) ==
    /\ Len(args) = Len(types)
    /\ \A i \in 1..Len(types) : TypeMatches(args, types, i) /\ PopsWell(args, i)

\* The first expected position that does not unpack, or the position after
\* the last expected one
FirstBad(args, types) ==
    CHOOSE i \in 1..(Len(types) + 1) :
        /\ \A j \in 1..(i - 1) : TypeMatches(args, types, j) /\ PopsWell(args, j)
        /\ i <= Len(types) => ~(TypeMatches(args, types, i) /\ PopsWell(args, i))

\* C30: unpack_message returns 0 exactly when the message holds the
\* expected number of arguments, each of the expected type and each popping
\* well, and then every position was popped once in order. Otherwise it
\* returns -1: on a wrong type at position i the positions before i were
\* popped and no other, on a failing pop at i the positions up to i and no
\* other, and an argument left after the last expected one gives -1 too.
C30_UnpackExact ==
    (pure.fn = "unpack" /\ pure.done) =>
        LET args == pure.args
            types == pure.types
            i == FirstBad(args, types)
        IN /\ pure.result \in {0, -1}
           /\ pure.result = 0 <=> WellFormed(args, types)
           /\ WellFormed(args, types) =>
                  pure.iter.popped = [j \in 1..Len(types) |-> j]
           /\ ~WellFormed(args, types) =>
                  pure.iter.popped =
                     [j \in 1..(IF i <= Len(types) /\ TypeMatches(args, types, i)
                                THEN i ELSE i - 1) |-> j]
           /\ (Len(args) > Len(types)) => pure.result = -1

\* C30 (case): the first of two expected arguments is a boolean of value 2;
\* its pop failed and the second argument was not looked at.
C30_Witness ==
    /\ pure.fn = "unpack"
    /\ pure.done
    /\ pure.types = <<"bool", "unsigned int">>
    /\ Len(pure.args) = 2
    /\ pure.args[1] = DBusArg("DBUS_TYPE_BOOLEAN", <<2, 0>>, <<>>, FALSE)
    /\ pure.args[2].type = "DBUS_TYPE_UINT32"
    /\ pure.result = -1
    /\ pure.iter.popped = <<1>>
    /\ pure.vals = pure.before

\* C22: popping a boolean whose 32-bit value is 0 gives false and 1 gives
\* true; any other value makes the pop fail, the enclosing unpack_message
\* return -1 and the destination keep the value it had. Pushing a boolean
\* appends a BOOLEAN argument of value 1 for true and 0 for false.
C22_BooleanStrict ==
    /\ (pure.fn = "unpack" /\ pure.done) =>
          \A j \in 1..Len(pure.iter.popped) :
              LET k == pure.iter.popped[j]
                  raw == pure.args[k].v
              IN pure.types[k] = "bool" =>
                    IF raw = <<0, 0>> THEN pure.vals[k] = CppVal(<<0, 0>>, <<>>)
                    ELSE IF raw = <<1, 0>> THEN pure.vals[k] = CppVal(<<1, 0>>, <<>>)
                    ELSE /\ pure.result = -1
                         /\ pure.vals[k] = pure.before[k]
                         /\ k = pure.iter.popped[Len(pure.iter.popped)]
    /\ (pure.fn = "pack" /\ pure.done) =>
          \A k \in 1..Len(pure.iter.args) :
              pure.types[k] = "bool" =>
                  /\ pure.iter.args[k].type = "DBUS_TYPE_BOOLEAN"
                  /\ pure.iter.args[k].v \in {<<0, 0>>, <<1, 0>>}
                  /\ pure.iter.args[k].v = <<1, 0>> <=> pure.vals[k].v = <<1, 0>>

\* C22 (case): a boolean argument of value 65536 was popped into a variable
\* holding true; the unpack failed and the variable still holds true.
C22_Witness ==
    /\ pure.fn = "unpack"
    /\ pure.done
    /\ pure.types = <<"bool">>
    /\ pure.args = <<DBusArg("DBUS_TYPE_BOOLEAN", <<0, 1>>, <<>>, FALSE)>>
    /\ pure.before = <<CppVal(<<1, 0>>, <<>>)>>
    /\ pure.iter.popped = <<1>>
    /\ pure.result = -1
    /\ pure.vals = pure.before

\* The C++ value an argument of a message stands for
ValueOfArg(arg) ==
    IF arg.type = "DBUS_TYPE_STRING" THEN CppVal(<<0, 0>>, arg.str)
    ELSE CppVal(arg.v, <<>>)

\* C29: handle_reply_message invokes the callback exactly when the message
\* is a METHOD_RETURN whose arguments are the expected output types, no
\* more and no fewer, each popping well, and the callback and its function
\* pointer are non-null; never for an ERROR, another type or a failed
\* unpack. An invocation happens once, with the context and then the
\* values of the arguments in their order.
C29_CallbackOnlyOnGoodReply ==
    (pure.fn = "handle_reply_message" /\ pure.done) =>
        LET good == /\ pure.msg.type = "DBUS_MESSAGE_TYPE_METHOD_RETURN"
                    /\ WellFormed(pure.msg.args, pure.TOutputs)
                    /\ pure.callback.ptr
                    /\ pure.callback.callback
        IN /\ Len(pure.invocations) <= 1
           /\ pure.invocations # <<>> <=> good
           /\ good =>
                /\ pure.invocations[1].ctx = pure.callback.ctx
                /\ Len(pure.invocations[1].values) = Len(pure.TOutputs)
                /\ \A k \in 1..Len(pure.TOutputs) :
                        pure.invocations[1].values[k] = ValueOfArg(pure.msg.args[k])

\* C29 (case): a METHOD_RETURN holding a uint32 and a string was handed to
\* a callback expecting the two; it was invoked once with both values.
C29_Witness ==
    /\ pure.fn = "handle_reply_message"
    /\ pure.done
    /\ pure.msg.type = "DBUS_MESSAGE_TYPE_METHOD_RETURN"
    /\ pure.TOutputs = <<"unsigned int", "std::string">>
    /\ pure.invocations =
          <<[ctx |-> 5,
             values |-> <<CppVal(<<7, 0>>, <<>>), CppVal(<<0, 0>>, <<104, 105>>)>>]>>

\* C28: method_call_async hands the reply to the callback at most once;
\* whether the reply arrives before or after the notify function is
\* installed, one of the two paths, the notify function or the immediate
\* steal, calls handle_reply_message, with the reply, and the pending call
\* is given up once.
C28_ReplyHandledOnce ==
    pure.fn = "method_call_async" =>
        /\ Len(pure.invocations) <= 1
        /\ Len(pure.handled) <= 1
        /\ pure.unrefs <= 1
        /\ (pure.pc = "returned" /\ pure.completed
                /\ pure.handler \in {"idle", "returned"}) =>
               /\ pure.unrefs = 1
               /\ Len(pure.handled) = 1
               /\ pure.handled[1].reply

\* C31: in method_call_async the outgoing message, once created, is
\* released exactly once on every return path: after a failing
\* pack_message, a failing send, a null pending call, a failing
\* registration of the notify function, and on success; it is never
\* released twice and never released when it was not created. Every
\* failure path returns -1 and only those do.
C31_RequestReleasedOnce ==
    pure.fn = "method_call_async" =>
        /\ pure.request_unrefs <= 1
        /\ pure.pc # "start" =>
               pure.request_unrefs = (IF pure.request THEN 1 ELSE 0)
        /\ pure.failure # "none" <=> pure.pc = "failed"
        /\ pure.pc = "failed" => pure.result = -1
        /\ pure.pc = "returned" => pure.result = 0
        /\ pure.failure \in {"pack", "send", "pending_null", "notify"} =>
               pure.request

\* C31 (case): the registration of the notify function failed after the
\* message was sent; the call returned -1 and the message was released
\* once.
C31_Witness ==
    /\ pure.fn = "method_call_async"
    /\ pure.pc = "failed"
    /\ pure.failure = "notify"
    /\ pure.request
    /\ pure.request_unrefs = 1
    /\ pure.result = -1

----------------------------------------------------------------------------
(* Containers (dbus.hpp): pack_message on one vector, dictionary or        *)
(* variant, with every choice of the libdbus calls that find no memory     *)

\* The libdbus calls of one message that may find no memory
MaxCalls == 8

StringValues == {CppVal(<<0, 0>>, <<111>>), CppVal(<<0, 0>>, <<104, 105>>)}

KeyValues == {CppVal(<<0, 0>>, <<97>>), CppVal(<<0, 0>>, <<98>>)}

\* The values a variable of type T may hold
RECURSIVE ValuesOf(_)
ValuesOf(T) ==
    IF T \in IntegralTypes THEN {CppVal(<<3, 0>>, <<>>)}
    ELSE IF T = "bool" THEN {CppVal(<<0, 0>>, <<>>), CppVal(<<1, 0>>, <<>>)}
    ELSE IF T = "DBusObject" THEN {CppObject("conn", <<115>>, <<47, 97>>)}
    ELSE IF T \in VectorTypes
    THEN {CppVector(elems) :
            elems \in UNION {[1..n -> ValuesOf(ElementType(T))] : n \in 0..MaxArgs}}
    ELSE IF T \in VariantTypes
    THEN UNION {{CppVariant(I - 1, v) : v \in ValuesOf(Alternatives(T)[I])} :
                    I \in 1..Len(Alternatives(T))}
    ELSE StringValues

\* The dictionaries of options: a std::unordered_map holds a key once and
\* iterates in any order
MapValues(T) ==
    LET vals == {CppVariant(0, CppVal(<<0, 0>>, <<111>>)),
                 CppVariant(1, CppVal(<<1, 0>>, <<>>)),
                 CppVariant(12, CppVector(<<CppVal(<<0, 0>>, <<111>>)>>))}
        entries == {[key |-> k, val |-> v] : k \in KeyValues, v \in vals}
    IN {CppMap(m) : m \in {e \in UNION {[1..n -> entries] : n \in 0..MaxArgs} :
                                \A i, j \in 1..Len(e) : e[i].key = e[j].key => i = j}}

ContainerValues(T) == IF T \in MapTypes THEN MapValues(T) ELSE ValuesOf(T)

InitContainers ==
    /\ endpoints = <<>>
    /\ call = <<>>
    /\ probe = NoProbe
    /\ \E T \in VectorTypes \cup MapTypes \cup VariantTypes :
        \E val \in ContainerValues(T) :
            \E oom \in SUBSET (1..MaxCalls) :
                pure = [fn |-> "pack",
                        types |-> <<T>>,
                        vals |-> <<val>>,
                        done |-> FALSE,
                        result |-> 0,
                        iter |-> dbus_message_iter_init_append(oom)]

NextContainers ==
    \/ Pack

SpecContainers == InitContainers /\ [][NextContainers]_vars

\* The libdbus calls made on the message that returned FALSE
FailedCalls(iter) == {c \in 1..iter.calls : c \in iter.oom}

\* C34: pack_message returns 0 only if every argument, nested ones included,
\* was appended: a failed append of a key or value of a dictionary entry
\* makes the dictionary push and pack_message return -1
C34_PackReportsNestedFailure ==
    (pure.fn = "pack" /\ pure.done /\ pure.result = 0)
        => /\ FailedCalls(pure.iter) = {}
           /\ pure.iter.args =
                pack_message(dbus_message_iter_init_append({}),
                             pure.types, pure.vals, 1).iter.args

\* C35: every container a push opened is closed when the push returns, also
\* when the push of one of its elements failed
C35_ContainersClosed ==
    (pure.fn = "pack" /\ pure.done) => pure.iter.open = 0

----------------------------------------------------------------------------
(* Variants (dbus.hpp): a dbus_variant is pushed into a message and popped *)
(* from it again, or popped from a message that came from elsewhere        *)

\* The values a dbus_variant may hold; a DBusObject refers to a connection
\* and a service or to none
VariantValues(T) ==
    ValuesOf(T) \cup {CppVariant(2, CppObject("nullptr", <<>>, <<47, 97>>))}

\* What the variant of a message from elsewhere may contain
ForeignContents ==
    {DBusArg(type, <<5, 0>>, <<>>, FALSE) :
        type \in {"DBUS_TYPE_BYTE", "DBUS_TYPE_INT16", "DBUS_TYPE_UINT16",
                  "DBUS_TYPE_INT32", "DBUS_TYPE_UINT32", "DBUS_TYPE_INT64",
                  "DBUS_TYPE_UINT64", "DBUS_TYPE_DOUBLE"}}
    \cup {DBusArg("DBUS_TYPE_BOOLEAN", v, <<>>, FALSE) : v \in {<<1, 0>>, <<2, 0>>}}
    \cup {DBusArg("DBUS_TYPE_STRING", <<0, 0>>, <<104, 105>>, FALSE),
          DBusArg("DBUS_TYPE_OBJECT_PATH", <<0, 0>>, <<47, 98>>, FALSE),
          DBusContainer("DBUS_TYPE_VARIANT", "s",
                        <<DBusArg("DBUS_TYPE_STRING", <<0, 0>>, <<111>>, FALSE)>>, TRUE)}
    \cup {DBusContainer("DBUS_TYPE_ARRAY", "s", elems, TRUE) :
            elems \in UNION {[1..n -> {DBusArg("DBUS_TYPE_STRING", <<0, 0>>, <<111>>, FALSE)}] :
                                n \in 0..MaxArgs}}
    \cup {DBusContainer("DBUS_TYPE_ARRAY", "u",
                        <<DBusArg("DBUS_TYPE_UINT32", <<5, 0>>, <<>>, FALSE)>>, TRUE)}

\* The variant the destination holds before the pop
Destinations ==
    {CppVariant(0, CppVal(<<0, 0>>, <<>>)), CppVariant(1, CppVal(<<1, 0>>, <<>>))}

InitVariant ==
    /\ endpoints = <<>>
    /\ call = <<>>
    /\ probe = NoProbe
    /\ \E T \in VariantTypes, dest \in Destinations :
        \/ \E val \in VariantValues(T), oom \in SUBSET (1..MaxResults) :
                pure = [fn |-> "variant", pc |-> "start", T |-> T,
                        pushed |-> TRUE, val |-> val,
                        iter |-> dbus_message_iter_init_append(oom),
                        args |-> <<>>, dest |-> dest,
                        result |-> 0, out |-> dest]
        \/ \E c \in ForeignContents :
                pure = [fn |-> "variant", pc |-> "message", T |-> T,
                        pushed |-> FALSE, val |-> dest,
                        iter |-> dbus_message_iter_init_append({}),
                        args |-> <<DBusContainer("DBUS_TYPE_VARIANT",
                                                 dbus_signature_of(c), <<c>>, TRUE)>>,
                        dest |-> dest,
                        result |-> 0, out |-> dest]

\* DBusTypeTraits<dbus_variant>::push(&iter, val)
PushVariant ==
    /\ pure.fn = "variant" /\ pure.pc = "start"
    /\ LET r == DBusTypeTraits_push(pure.T, pure.iter, pure.val)
       IN pure' = [pure EXCEPT
                      !.pc = IF r.result = 0 THEN "message" ELSE "failed",
                      !.result = r.result,
                      !.iter = r.iter,
                      !.args = r.iter.args]
    /\ UNCHANGED <<endpoints, call, probe>>

\* DBusTypeTraits<dbus_variant>::pop(&iter, dest) on the message
PopVariant ==
    /\ pure.fn = "variant" /\ pure.pc = "message"
    /\ LET r == DBusTypeTraits_pop(pure.T, dbus_message_iter_init(pure.args),
                                   pure.dest)
       IN pure' = [pure EXCEPT
                      !.pc = "popped",
                      !.result = r.result,
                      !.out = r.val]
    /\ UNCHANGED <<endpoints, call, probe>>

NextVariant ==
    \/ PushVariant
    \/ PopVariant

SpecVariant == InitVariant /\ [][NextVariant]_vars

\* The signature of what the variant of the message contains
ContentSignature == dbus_signature_of(pure.args[1].elems[1])

\* The indices of the alternatives of T that have the signature sig
Matching(T, sig) ==
    {I \in 0..(Len(Alternatives(T)) - 1) : get_signature(Alternatives(T)[I + 1]) = sig}

Lowest(S) == CHOOSE I \in S : \A J \in S : I <= J

\* C32: the pop of a variant takes the alternative of the lowest index whose
\* signature is the signature of the message; when no alternative has it,
\* the pop returns -1 and the destination is as it was
C32_VariantPopLinearScan ==
    (pure.fn = "variant" /\ pure.pc = "popped")
        => LET M == Matching(pure.T, ContentSignature)
           IN IF M = {} THEN pure.result = -1 /\ pure.out = pure.dest
              ELSE /\ pure.out.index = Lowest(M)
                   /\ LET A == Alternatives(pure.T)[Lowest(M) + 1]
                          r == DBusTypeTraits_pop(
                                  A, dbus_message_iter_init(pure.args[1].elems),
                                  ValueInitialized(A))
                      IN pure.result = r.result /\ pure.out.val = r.val

\* Two alternatives have the signature of the message, and the lower one
\* was taken
C32_Witness ==
    /\ pure.fn = "variant" /\ pure.pc = "popped"
    /\ Cardinality(Matching(pure.T, ContentSignature)) = 2
    /\ pure.result = 0
    /\ pure.out.index = 5
    /\ pure.out # pure.dest

\* C33: a dbus_variant pushed into a message and popped from it holds the
\* alternative it held before and an equal value
C33_VariantRoundTrip ==
    (pure.fn = "variant" /\ pure.pc = "popped" /\ pure.pushed)
        => /\ pure.result = 0
           /\ pure.out.index = pure.val.index
           /\ pure.out.val = pure.val.val

====
